---------------------------- MODULE Spec2Model ----------------------------
(***************************************************************************)
(* Admission control, job lifecycle and credit ledger of the FiftyFive     *)
(* Labs server (src/server/main.py).                                       *)
(*                                                                         *)
(* Time is counted in units of 30 minutes (1 800 000 ms): the stuck-job    *)
(* threshold is 1 unit and a day is 48 units.                              *)
(*                                                                         *)
(* Request handlers are asyncio coroutines of one server process.  The     *)
(* code between two `await` expressions of a handler runs without          *)
(* interruption and is one action here; every `await`, those on the        *)
(* rate limiter's lock included, is a point where another handler may run. *)
(* A write to the database is visible to the other handlers at once.       *)
(***************************************************************************)
EXTENDS Integers, Sequences, FiniteSets, TLC

\* ------------------------------------------------------------------ bounds
MaxPackages == 2         \* rows of credit_packages the ledger runs keep
MaxDrawnPackages == 3    \* rows of the tables drawn for DeductApply
MaxAmountUnits == 7      \* largest amount tried by DeductApply, in units of 5
MaxCreditsUsed == 15     \* cap on users.credits_used in the ledger runs
MaxLedgerDays == 10      \* how far the ledger runs advance the clock, in days

\* ------------------------------------------------------- program constants
DAY_MS == 48
REFUND_DAYS == 7
BONUS_DAYS == 30
TOPUP_DAYS == 30
MIN_PACKAGE_CREDITS == 1000000
MAX_PACKAGE_CREDITS == 30000000
HOUR == 2
STUCK_THRESHOLD_MS == 1

Users == {"u1", "u2", "u3"}
NoUser == "nobody"

\* users.referrer_id: u1 was referred by u2, u2 by u3, u3 by nobody.
referrer_id(u) == IF u = "u1" THEN "u2" ELSE IF u = "u2" THEN "u3" ELSE NoUser

VARIABLES
    now,                      \* now_ms(), in 30-minute units
    packages,                 \* table credit_packages, in rowid order
    credits_used,             \* users.credits_used
    referral_credits_earned,  \* users.referral_credits_earned
    referred_count,           \* COUNT(*) FROM users WHERE referrer_id = u
    call,                     \* the call of a pure-function run and its result
    credits_balance,          \* users.credits_balance (-1: unlimited)
    jobs,                     \* table jobs, in rowid order
    api_key_usage,            \* rate_limiter.api_key_usage
    api_key_concurrent,       \* rate_limiter.api_key_concurrent
    user_concurrent,          \* rate_limiter.user_concurrent
    flows,                    \* the handlers in flight, each with its locals
    sweep,                    \* cleanup_stuck_tasks: the stuck jobs still to handle
    audit                     \* history, per job: dispatches and refunds

vars == <<now, packages, credits_used, referral_credits_earned, referred_count, call,
          credits_balance, jobs, api_key_usage, api_key_concurrent, user_concurrent, flows,
          sweep, audit>>

ledgerVars == <<packages, credits_used, referral_credits_earned, referred_count>>
limiterVars == <<api_key_usage, api_key_concurrent, user_concurrent>>
serverVars == <<credits_balance, jobs, api_key_usage, api_key_concurrent, user_concurrent, flows,
                sweep, audit>>

Min(a, b) == IF a < b THEN a ELSE b
Max(a, b) == IF a > b THEN a ELSE b

RECURSIVE SumSeq(_)
SumSeq(s) == IF s = <<>> THEN 0 ELSE Head(s) + SumSeq(Tail(s))

\* ------------------------------------------------- rate limiter and tables

Keys == {"k1", "k2"}
NoKey == "nokey"

\* api_keys.hourly_limit, api_keys.concurrent_limit, users.concurrent_limit:
\* the values the rows of the run are configured with.
hourly_limit(k) == IF k = "k1" THEN 2 ELSE 2000
api_concurrent_limit(k) == IF k = "k1" THEN 3 ELSE 10
user_concurrent_limit(u) == IF u = "u1" THEN 2 ELSE 3

\* get_active_api_key(): the least recently used active row of api_keys.
get_active_api_key == "k1"

NoUsage == [present |-> FALSE, count |-> 0, reset_at |-> 0]

HourStart(t) == t - (t % HOUR)

\* check_api_key_limit without the branch "if now >= usage['reset_at']".
UsageCheckedNoReset(usage, k, t) ==
    LET reset_at == HourStart(t) + HOUR
    IN  [usage EXCEPT ![k] = IF usage[k].present THEN usage[k]
                             ELSE [present |-> TRUE, count |-> 0, reset_at |-> reset_at]]

\* check_api_key_limit, the part that writes api_key_usage.
UsageChecked(usage, k, t) ==
    LET reset_at == HourStart(t) + HOUR
        created == IF usage[k].present THEN usage[k]
                   ELSE [present |-> TRUE, count |-> 0, reset_at |-> reset_at]
    IN  [usage EXCEPT ![k] = IF t >= created.reset_at
                             THEN [created EXCEPT !.count = 0, !.reset_at = reset_at]
                             ELSE created]

\* check_api_key_limit, the flag it returns (on the usage it has written).
check_api_key_limit(usage, k, limit) == ~(usage[k].count >= limit)

\* check_api_key_limit, the other two values it returns.
remaining_of(usage, k, limit) == Max(0, limit - usage[k].count)
reset_in_of(usage, k, t) == usage[k].reset_at - t

increment_api_key_usage(usage, k) ==
    IF usage[k].present THEN [usage EXCEPT ![k].count = @ + 1] ELSE usage

check_concurrent(kc, uc, k, u, api_key_limit, user_limit) ==
    /\ ~(kc[k] >= api_key_limit)
    /\ ~(uc[u] >= user_limit)

acquire_concurrent(c, x) == [c EXCEPT ![x] = @ + 1]

release_concurrent(c, x) == [c EXCEPT ![x] = Max(0, @ - 1)]

Terminal == {"completed", "failed", "cancelled"}

\* A handler that is not running, and a handler with its locals.
Idle == [op |-> "none", pc |-> "idle", user |-> NoUser, key |-> NoKey, job |-> 0,
         status |-> "none", credits |-> 0, result |-> "none", scan |-> {}]

\* A handler that has returned: its locals are gone, result is the HTTP
\* status of its answer.
Returned(fl, result) == [Idle EXCEPT !.pc = "done", !.result = result]

Free(fl) == fl.pc \in {"idle", "done"}

\* The history of a job: how often it was handed to the provider and how
\* many credits were refunded for it.
NoAudit == [dispatched |-> 0, refunded |-> 0]

\* UPDATE jobs SET status = ? WHERE id = ?  A row that DELETE has removed
\* stays in the sequence with status "deleted", so that the ids of the other
\* rows keep their place; no SELECT finds it and no UPDATE changes it.
SetStatus(jb, j, status) ==
    IF jb[j].status = "deleted" THEN jb ELSE [jb EXCEPT ![j].status = status]


NoServer ==
    /\ credits_balance = [u \in Users |-> 0]
    /\ jobs = <<>>
    /\ api_key_usage = [k \in Keys |-> NoUsage]
    /\ api_key_concurrent = [k \in Keys |-> 0]
    /\ user_concurrent = [u \in Users |-> 0]
    /\ flows = <<>>
    /\ sweep = <<>>
    /\ audit = <<>>

\* ------------------------------------------------------------------ ledger

\* WHERE user_id = ? AND credits_remaining > 0 AND expires_at_ms > now
IsActiveAtExpiry(p, u, t) ==
    p.user_id = u /\ p.credits_remaining > 0 /\ p.expires_at_ms >= t
IsActive(p, u, t) ==
    p.user_id = u /\ p.credits_remaining > 0 /\ p.expires_at_ms > t

ActiveRows(pk, u, t) == {i \in DOMAIN pk : IsActive(pk[i], u, t)}

\* ORDER BY expires_at_ms ASC; rows with equal expires_at_ms in rowid order.
Earliest(pk, rows) ==
    CHOOSE i \in rows : \A j \in rows :
        \/ pk[i].expires_at_ms < pk[j].expires_at_ms
        \/ pk[i].expires_at_ms = pk[j].expires_at_ms /\ i <= j

RECURSIVE OrderByExpiry(_, _)
OrderByExpiry(pk, rows) ==
    IF rows = {} THEN <<>>
    ELSE LET i == Earliest(pk, rows)
         IN <<i>> \o OrderByExpiry(pk, rows \ {i})

get_user_credit_packages(pk, u, t) == OrderByExpiry(pk, ActiveRows(pk, u, t))

RECURSIVE SumRemaining(_, _)
SumRemaining(pk, rows) ==
    IF rows = {} THEN 0
    ELSE LET i == CHOOSE x \in rows : TRUE
         IN pk[i].credits_remaining + SumRemaining(pk, rows \ {i})

get_total_credits_from_packages(pk, u, t) == SumRemaining(pk, ActiveRows(pk, u, t))

\* The loop of _deduct_credits_from_packages over the selected rows.
DeductFromThisNoMin(remaining, to_deduct) == to_deduct
DeductFromThis(remaining, to_deduct) == Min(remaining, to_deduct)

RECURSIVE DeductLoop(_, _, _)
DeductLoop(pk, order, remaining_to_deduct) ==
    IF order = <<>> \/ remaining_to_deduct <= 0 THEN pk
    ELSE LET i == Head(order)
             deduct_from_this == DeductFromThis(pk[i].credits_remaining, remaining_to_deduct)
         IN DeductLoop([pk EXCEPT ![i].credits_remaining = @ - deduct_from_this],
                       Tail(order), remaining_to_deduct - deduct_from_this)

\* The rows in the order the loop visits them.
DeductOrderByRowid(pk, u, t) ==
    LET RECURSIVE Asc(_)
        Asc(rows) == IF rows = {} THEN <<>>
                     ELSE LET i == CHOOSE x \in rows : \A y \in rows : x <= y
                          IN <<i>> \o Asc(rows \ {i})
    IN Asc(ActiveRows(pk, u, t))
DeductOrder(pk, u, t) == get_user_credit_packages(pk, u, t)

DeductEnoughAlways(pk, u, amount, t) == TRUE
DeductEnough(pk, u, amount, t) ==
    get_total_credits_from_packages(pk, u, t) >= amount

\* _deduct_credits_from_packages: the return value and the table afterwards.
deduct_ok_unchecked(pk, u, amount, t) == TRUE
deduct_ok(pk, u, amount, t) == DeductEnough(pk, u, amount, t)

deduct_credits_from_packages(pk, u, amount, t) ==
    IF deduct_ok(pk, u, amount, t)
    THEN DeductLoop(pk, DeductOrder(pk, u, t), amount)
    ELSE pk

\* _get_referral_tier_rate, in percent.
get_referral_tier_rate_above(cnt) ==
    IF cnt > 70 THEN 15 ELSE IF cnt > 25 THEN 10 ELSE 5
get_referral_tier_rate(cnt) ==
    IF cnt >= 70 THEN 15 ELSE IF cnt >= 25 THEN 10 ELSE 5

NewPackage(u, credits, duration_days, source, t) ==
    [user_id |-> u, credits_initial |-> credits, credits_remaining |-> credits,
     expires_at_ms |-> t + duration_days * DAY_MS, created_at_ms |-> t,
     source |-> source]

\* bonus = int(math.floor(float(credits_added) * rate))
ReferralBonus(u, credits_added, cnt) ==
    IF referrer_id(u) = NoUser THEN 0
    ELSE (credits_added * get_referral_tier_rate(cnt[referrer_id(u)])) \div 100

\* if apply_referral and source in ["purchase", "admin"]
BonusTriggersAnySource(source, apply_referral) == apply_referral
BonusTriggers(source, apply_referral) ==
    apply_referral /\ source \in {"purchase", "admin"}

\* _add_credit_package with _apply_referral_bonus: the table afterwards.  The
\* bonus is itself added with _add_credit_package(referrer_id, bonus, 30,
\* source="referral_bonus", apply_referral=False).
RECURSIVE add_credit_package(_, _, _, _, _, _, _, _)
add_credit_package(pk, u, credits, duration_days, source, apply_referral, cnt, t) ==
    LET withPkg == Append(pk, NewPackage(u, credits, duration_days, source, t))
        bonus == ReferralBonus(u, credits, cnt)
    IN IF BonusTriggers(source, apply_referral) /\ bonus > 0
       THEN add_credit_package(withPkg, referrer_id(u), bonus, BONUS_DAYS,
                               "referral_bonus", FALSE, cnt, t)
       ELSE withPkg

\* users.referral_credits_earned after _add_credit_package.
RECURSIVE BonusEarned(_, _, _, _, _, _)
BonusEarned(earned, u, credits, source, apply_referral, cnt) ==
    LET bonus == ReferralBonus(u, credits, cnt)
    IN IF BonusTriggers(source, apply_referral) /\ bonus > 0
       THEN BonusEarned([earned EXCEPT ![referrer_id(u)] = @ + bonus], referrer_id(u),
                        bonus, "referral_bonus", FALSE, cnt)
       ELSE earned


\* ------------------------------------------- _deduct_credits_from_packages
\* The function on its own: the table and the clock are drawn from bounded
\* sets and one call is applied.

ExpiryDays == {7, 30, 60}
CreditSteps == {0, 5, 10}
CallTimes == {0, 7 * DAY_MS, 10 * DAY_MS}
NoCall == [pc |-> "none"]

\* A row as the code leaves it: a refund lasts 7 days, a top-up 30, and an
\* admin edit may set 60; credits_remaining is what deductions left of 10.
SourceOfDays(d) == IF d = REFUND_DAYS THEN "refund" ELSE "admin_topup"

DrawnRows ==
    {[user_id |-> u, credits_initial |-> 10, credits_remaining |-> r,
      expires_at_ms |-> d * DAY_MS, created_at_ms |-> 0, source |-> SourceOfDays(d)] :
        u \in Users, r \in CreditSteps, d \in ExpiryDays}

DrawnTables == UNION {[1..n -> DrawnRows] : n \in 0..MaxDrawnPackages}

InitCommon ==
    /\ credits_used = [u \in Users |-> 0]
    /\ referral_credits_earned = [u \in Users |-> 0]
    /\ referred_count = [u \in Users |-> 0]

InitDeduct ==
    /\ InitCommon
    /\ now \in CallTimes
    /\ packages \in DrawnTables
    /\ call = [pc |-> "in"]
    /\ NoServer

DeductApply(u, amount) ==
    /\ call.pc = "in"
    /\ call' = [pc |-> "out", user |-> u, amount |-> amount, before |-> packages,
                ok |-> deduct_ok(packages, u, amount, now)]
    /\ packages' = deduct_credits_from_packages(packages, u, amount, now)
    /\ UNCHANGED <<now, credits_used, referral_credits_earned, referred_count, serverVars>>

\* Amounts that are no multiple of a package's remainder as well.
OddAmounts == {3, 12}

NextDeduct ==
    \E amount \in {5 * k : k \in 0..MaxAmountUnits} \cup OddAmounts :
        DeductApply("u1", amount)

SpecDeduct == InitDeduct /\ [][NextDeduct]_vars

\* What one call took from the rows that were active when it ran.
TakenFrom(before, after, rows) ==
    LET RECURSIVE Taken(_)
        Taken(rs) == IF rs = {} THEN 0
                     ELSE LET i == CHOOSE x \in rs : TRUE
                          IN (before[i].credits_remaining - after[i].credits_remaining)
                             + Taken(rs \ {i})
    IN Taken(rows)

RowsOutside(before, rows) == DOMAIN before \ rows

\* C8: Deduct is all-or-nothing.  With an available balance of at least the
\* amount it reports success and the active packages of the user lose exactly
\* the amount in total, no row losing more than it held and no other row
\* changing; otherwise it reports failure and the table is as before.
C8_DeductAllOrNothing ==
    call.pc = "out" =>
        LET rows == ActiveRows(call.before, call.user, now)
            bal == SumRemaining(call.before, rows)
        IN IF bal >= call.amount
           THEN /\ call.ok
                /\ DOMAIN packages = DOMAIN call.before
                /\ TakenFrom(call.before, packages, rows) = call.amount
                /\ \A i \in rows :
                      /\ packages[i].credits_remaining >= 0
                      /\ packages[i].credits_remaining <= call.before[i].credits_remaining
                /\ \A i \in RowsOutside(call.before, rows) : packages[i] = call.before[i]
           ELSE ~call.ok /\ packages = call.before

\* A successful call that had to take from more than one package.
C8_Witness ==
    /\ call.pc = "out" /\ call.ok /\ call.amount = 15
    /\ Cardinality({i \in DOMAIN packages :
            packages[i].credits_remaining < call.before[i].credits_remaining}) = 2

\* C9: a successful Deduct takes from the active packages in ascending
\* expires_at order: a package is decremented only if every active package of
\* the user that expires sooner is left at 0.
C9_DeductFifo ==
    (call.pc = "out" /\ call.ok) =>
        \A i, j \in ActiveRows(call.before, call.user, now) :
            (/\ call.before[i].expires_at_ms < call.before[j].expires_at_ms
             /\ packages[j].credits_remaining < call.before[j].credits_remaining)
            => packages[i].credits_remaining = 0

\* Remainders 10, 10, 10 expiring at T1 < T2 < T3, stored latest first, minus
\* 15 leaves 0, 5, 10.
C9_Witness ==
    /\ call.pc = "out" /\ call.ok /\ call.amount = 15 /\ call.user = "u1"
    /\ Len(call.before) = 3
    /\ \A i \in 1..3 : call.before[i].user_id = "u1" /\ call.before[i].credits_remaining = 10
    /\ call.before[1].expires_at_ms > call.before[2].expires_at_ms
    /\ call.before[2].expires_at_ms > call.before[3].expires_at_ms
    /\ call.before[3].expires_at_ms > now
    /\ packages[3].credits_remaining = 0
    /\ packages[2].credits_remaining = 5
    /\ packages[1].credits_remaining = 10


\* ------------------------------------------------- the ledger's operations

TopupCredits == {10}
ChargeAmounts == {5, 15}
PackageCredits == {MIN_PACKAGE_CREDITS - 1, MIN_PACKAGE_CREDITS}
PackageDurations == {30, 45}
PackageSources == {"admin", "gift"}
EditDurations == {0, 45, 60}      \* 0: the body gives no duration_days
ReferredCounts == {1, 25}

InitLedger ==
    /\ now = 0
    /\ packages = <<>>
    /\ credits_used = [u \in Users |-> 0]
    /\ referral_credits_earned = [u \in Users |-> 0]
    /\ referred_count \in {[u \in Users |-> IF u = "u2" THEN c ELSE 0] : c \in ReferredCounts}
    /\ call = NoCall
    /\ NoServer

\* POST /api/admin/users/{id}/topup
admin_topup_user(u, credits) ==
    LET after == add_credit_package(packages, u, credits, TOPUP_DAYS, "admin_topup",
                                    TRUE, referred_count, now)
    IN /\ Len(after) <= MaxPackages
       /\ packages' = after
       /\ referral_credits_earned' =
              BonusEarned(referral_credits_earned, u, credits, "admin_topup", TRUE, referred_count)
       /\ UNCHANGED <<now, credits_used, referred_count, call, serverVars>>

\* POST /api/admin/users/{id}/packages
admin_add_user_package(u, credits, duration_days, source) ==
    LET apply_ref == source \in {"purchase", "admin"}
        after == add_credit_package(packages, u, credits, duration_days, source,
                                    apply_ref, referred_count, now)
    IN /\ Len(after) <= MaxPackages
       /\ IF \/ credits < MIN_PACKAGE_CREDITS \/ credits > MAX_PACKAGE_CREDITS
             \/ duration_days \notin {30, 60, 90}
          THEN UNCHANGED <<packages, referral_credits_earned>>
          ELSE /\ packages' = after
               /\ referral_credits_earned' =
                      BonusEarned(referral_credits_earned, u, credits, source, apply_ref,
                                  referred_count)
       /\ UNCHANGED <<now, credits_used, referred_count, call, serverVars>>

\* The charge of a submission: _deduct_credits_from_packages, then
\* credits_used = credits_used + amount.
ChargeUser(u, amount) ==
    /\ credits_used[u] + amount <= MaxCreditsUsed
    /\ IF deduct_ok(packages, u, amount, now)
       THEN /\ packages' = deduct_credits_from_packages(packages, u, amount, now)
            /\ credits_used' = [credits_used EXCEPT ![u] = @ + amount]
       ELSE UNCHANGED <<packages, credits_used>>
    /\ UNCHANGED <<now, referral_credits_earned, referred_count, call, serverVars>>

\* The refund of a cancel: a 7-day package of the credits charged, then
\* credits_used = credits_used - amount.
RefundUser(u, amount) ==
    /\ amount <= credits_used[u]
    /\ Len(packages) < MaxPackages
    /\ packages' = add_credit_package(packages, u, amount, REFUND_DAYS, "refund", FALSE,
                                      referred_count, now)
    /\ credits_used' = [credits_used EXCEPT ![u] = @ - amount]
    /\ UNCHANGED <<now, referral_credits_earned, referred_count, call, serverVars>>

ValidRemainingAny(new_remaining, credits_initial) == TRUE
ValidRemaining(new_remaining, credits_initial) ==
    ~(new_remaining < 0 \/ new_remaining > credits_initial)

\* PATCH /api/admin/users/{id}/packages/{package_id}; edit_remaining says
\* whether the body gives credits_remaining.  A rejected value raises before
\* the commit, so nothing of the request is kept.
admin_update_user_package(i, edit_remaining, new_remaining, new_duration_days) ==
    /\ i \in DOMAIN packages
    /\ IF \/ edit_remaining /\ ~ValidRemaining(new_remaining, packages[i].credits_initial)
          \/ new_duration_days # 0 /\ new_duration_days \notin {30, 60, 90}
       THEN UNCHANGED packages
       ELSE packages' = [packages EXCEPT
              ![i].credits_remaining = IF edit_remaining THEN new_remaining ELSE @,
              ![i].expires_at_ms = IF new_duration_days # 0
                                   THEN packages[i].created_at_ms + new_duration_days * DAY_MS
                                   ELSE @]
    /\ UNCHANGED <<now, credits_used, referral_credits_earned, referred_count, call, serverVars>>

AdvanceDays(d) ==
    /\ now + d * DAY_MS <= MaxLedgerDays * DAY_MS
    /\ now' = now + d * DAY_MS
    /\ UNCHANGED <<packages, credits_used, referral_credits_earned, referred_count, call, serverVars>>

\* The values an admin edit tries for a row: below 0, 0, all of it, more
\* than it.
EditValues(p) == {-1, 0, p.credits_initial, p.credits_initial + 1}

NextLedger ==
    \/ \E c \in TopupCredits : admin_topup_user("u1", c)
    \/ \E c \in PackageCredits, d \in PackageDurations, s \in PackageSources :
           admin_add_user_package("u1", c, d, s)
    \/ \E u \in Users, a \in ChargeAmounts : ChargeUser(u, a)
    \/ \E u \in Users, a \in ChargeAmounts : RefundUser(u, a)
    \/ \E i \in 1..MaxPackages, e \in BOOLEAN, d \in EditDurations :
           \E r \in (IF i \in DOMAIN packages /\ e THEN EditValues(packages[i]) ELSE {0}) :
               admin_update_user_package(i, e, r, d)
    \/ AdvanceDays(10)

SpecLedger == InitLedger /\ [][NextLedger]_vars

\* C10: every credit package keeps 0 <= credits_remaining <= credits_initial,
\* whatever sequence of package additions, deductions, refunds, referral
\* bonuses and admin edits produced the table.
C10_RemainingWithinInitial ==
    \A i \in DOMAIN packages :
        /\ 0 <= packages[i].credits_remaining
        /\ packages[i].credits_remaining <= packages[i].credits_initial

\* A package partly spent by a deduction, with the refund of a charge beside it.
C10_Witness ==
    /\ \E i \in DOMAIN packages : packages[i].source = "refund"
    /\ \E i \in DOMAIN packages :
           /\ 0 < packages[i].credits_remaining
           /\ packages[i].credits_remaining < packages[i].credits_initial


\* ------------------------------------------- POST /api/generate (SpecAdmission)

NumSubmitters == 3       \* submissions of POST /api/generate in flight
MaxNow == 2              \* how far the server runs advance the clock

InitialBalances == {-1, 2}
ProviderAnswers == {"ok", "error"}

Finite(balance) == balance # -1

\* The row of POST /api/generate: metadata_json is left NULL.
NewLegacyJob(u, k, t) ==
    [user_id |-> u, api_key_id |-> k, status |-> "pending", job_type |-> "none",
     credits_charged |-> 1, created_at_ms |-> t, full_text |-> FALSE,
     metadata_like_image |-> FALSE]

InitAdmission ==
    /\ now = 0
    /\ packages = <<>>
    /\ InitCommon
    /\ call = NoCall
    /\ credits_balance \in {[u \in Users |-> IF u = "u1" THEN b ELSE 0] : b \in InitialBalances}
    /\ jobs = <<>>
    /\ api_key_usage = [k \in Keys |-> NoUsage]
    /\ api_key_concurrent = [k \in Keys |-> 0]
    /\ user_concurrent = [u \in Users |-> 0]
    /\ flows = [f \in 1..NumSubmitters |-> Idle]
    /\ sweep = <<>>
    /\ audit = <<>>

\* generate_image up to its first await: authentication, the credits check
\* and the choice of the provider key.
GenBegin(f, u) ==
    /\ flows[f].pc = "idle"
    /\ flows' = [flows EXCEPT ![f] =
          IF Finite(credits_balance[u]) /\ credits_balance[u] <= 0
          THEN Returned(@, "402")
          ELSE [@ EXCEPT !.op = "generate_image", !.pc = "check_api_key_limit",
                         !.user = u, !.key = get_active_api_key,
                         !.credits = credits_balance[u]]]
    /\ UNCHANGED <<now, ledgerVars, call, credits_balance, jobs, limiterVars, sweep, audit>>

\* await rate_limiter.check_api_key_limit(...)
GenCheckApiKeyLimit(f) ==
    LET fl == flows[f]
        usage == UsageChecked(api_key_usage, fl.key, now)
    IN  /\ fl.pc = "check_api_key_limit"
        /\ api_key_usage' = usage
        /\ flows' = [flows EXCEPT ![f] =
              IF check_api_key_limit(usage, fl.key, hourly_limit(fl.key))
              THEN [@ EXCEPT !.pc = "check_concurrent"]
              ELSE Returned(@, "429")]
        /\ UNCHANGED <<now, ledgerVars, call, credits_balance, jobs,
                       api_key_concurrent, user_concurrent, sweep, audit>>

\* The admission test of generate_image.
GenAllowed(kc, uc, k, u) ==
    check_concurrent(kc, uc, k, u, api_concurrent_limit(k), user_concurrent_limit(u))

\* await rate_limiter.check_concurrent(...)
GenCheckConcurrent(f) ==
    LET fl == flows[f]
    IN  /\ fl.pc = "check_concurrent"
        /\ flows' = [flows EXCEPT ![f] =
              IF GenAllowed(api_key_concurrent, user_concurrent, fl.key, fl.user)
              THEN [@ EXCEPT !.pc = "acquire_concurrent"]
              ELSE Returned(@, "429")]
        /\ UNCHANGED <<now, ledgerVars, call, credits_balance, jobs, limiterVars, sweep, audit>>

\* await rate_limiter.acquire_concurrent(...), then the job row, the charge
\* and the start of the background task.
GenAcquire(f) ==
    LET fl == flows[f]
    IN  /\ fl.pc = "acquire_concurrent"
        /\ api_key_concurrent' = acquire_concurrent(api_key_concurrent, fl.key)
        /\ user_concurrent' = acquire_concurrent(user_concurrent, fl.user)
        /\ jobs' = Append(jobs, NewLegacyJob(fl.user, fl.key, now))
        /\ IF Finite(fl.credits)
           THEN /\ credits_balance' = [credits_balance EXCEPT ![fl.user] = @ - 1]
                /\ credits_used' = [credits_used EXCEPT ![fl.user] = @ + 1]
           ELSE UNCHANGED <<credits_balance, credits_used>>
        /\ flows' = [flows EXCEPT ![f] =
              [@ EXCEPT !.op = "generate_image_task", !.pc = "task_start",
                        !.job = Len(jobs) + 1, !.result = "200"]]
        /\ audit' = Append(audit, NoAudit)
        /\ UNCHANGED <<now, packages, referral_credits_earned, referred_count, call,
                       api_key_usage, sweep>>

\* generate_image_task up to the request to the image provider.
GenTaskStart(f) ==
    LET fl == flows[f]
    IN  /\ fl.pc = "task_start"
        /\ jobs' = SetStatus(jobs, fl.job, "processing")
        /\ flows' = [flows EXCEPT ![f].pc = "task_http"]
        /\ UNCHANGED <<now, ledgerVars, call, credits_balance, limiterVars, sweep, audit>>

\* The provider's answer: the job becomes completed or failed.
GenTaskResponse(f, answer) ==
    LET fl == flows[f]
        status == IF answer = "ok" THEN "completed" ELSE "failed"
    IN  /\ fl.pc = "task_http"
        /\ jobs' = SetStatus(jobs, fl.job, status)
        /\ flows' = [flows EXCEPT ![f].pc =
                       IF answer = "ok" THEN "task_usage" ELSE "task_release"]
        /\ UNCHANGED <<now, ledgerVars, call, credits_balance, limiterVars, sweep, audit>>

\* await rate_limiter.increment_api_key_usage(api_key_id)
GenTaskUsage(f) ==
    LET fl == flows[f]
    IN  /\ fl.pc = "task_usage"
        /\ api_key_usage' = increment_api_key_usage(api_key_usage, fl.key)
        /\ flows' = [flows EXCEPT ![f].pc = "task_release"]
        /\ UNCHANGED <<now, ledgerVars, call, credits_balance, jobs,
                       api_key_concurrent, user_concurrent, sweep, audit>>

\* finally: await rate_limiter.release_concurrent(api_key_id, user_id)
GenTaskRelease(f) ==
    LET fl == flows[f]
    IN  /\ fl.pc = "task_release"
        /\ api_key_concurrent' = release_concurrent(api_key_concurrent, fl.key)
        /\ user_concurrent' = release_concurrent(user_concurrent, fl.user)
        /\ flows' = [flows EXCEPT ![f] = Returned(@, fl.result)]
        /\ UNCHANGED <<now, ledgerVars, call, credits_balance, jobs, api_key_usage,
                       sweep, audit>>

Tick ==
    /\ now < MaxNow
    /\ now' = now + 1
    /\ UNCHANGED <<ledgerVars, call, serverVars>>

NextAdmission ==
    \/ \E f \in DOMAIN flows : GenBegin(f, "u1")
    \/ \E f \in DOMAIN flows : GenCheckApiKeyLimit(f)
    \/ \E f \in DOMAIN flows : GenCheckConcurrent(f)
    \/ \E f \in DOMAIN flows : GenAcquire(f)
    \/ \E f \in DOMAIN flows : GenTaskStart(f)
    \/ \E f \in DOMAIN flows, answer \in ProviderAnswers : GenTaskResponse(f, answer)
    \/ \E f \in DOMAIN flows : GenTaskUsage(f)
    \/ \E f \in DOMAIN flows : GenTaskRelease(f)
    \/ Tick

SpecAdmission == InitAdmission /\ [][NextAdmission]_vars

\* C1: under any number of simultaneous submissions of POST /api/generate,
\* the concurrency counter of a key never exceeds the key's limit and the
\* counter of a user never exceeds the user's limit.
C1_CountersWithinLimits ==
    /\ \A k \in Keys : api_key_concurrent[k] <= api_concurrent_limit(k)
    /\ \A u \in Users : user_concurrent[u] <= user_concurrent_limit(u)

\* ------------------------------------------------ voice job lifecycle (Spec)

MaxJobs == 2             \* rows of jobs the lifecycle runs create

Handlers == {"h1", "h2"}
JobCosts == {5}
StartCredits == {10}
SynthesizeAnswers == {"ok", "error", "timeout"}
PromoteAnswers == {"ok", "error"}
StatusAnswers == {"error", "completed", "failed", "processing"}

\* users.concurrent_slots (DEFAULT 1)
concurrent_slots(u) == 1

\* get_voicer_api_key(): the least recently used active voicer row of api_keys.
get_voicer_api_key == "k1"

\* metadata.get("type") == "image", on the parsed metadata_json
IsVoice(job) == job.job_type # "image"

\* The body's voice_settings: none, or an object with "type": "image" in it.
VoiceSettings == {"none", "type_image"}

\* metadata_json LIKE '%"type":"image"%' OR metadata_json LIKE '%"type": "image"%'
\* on _json_dumps(metadata): the text of an image job's metadata holds the
\* pattern, and so does that of a voice job whose voice_settings, stored as
\* sent, hold it; strings of the body are stored with their quotes escaped.
LikeImage(job_type, voice_settings) ==
    job_type = "image" \/ voice_settings = "type_image"

\* AND (metadata_json IS NULL OR (metadata_json NOT LIKE ... AND NOT LIKE ...))
voice_filter(job) == ~job.metadata_like_image

\* AND (metadata_json LIKE ... OR metadata_json LIKE ...)
image_filter(job) == job.metadata_like_image

\* SELECT COUNT(*) FROM jobs WHERE user_id = ? AND status = 'processing' (voice)
active_processing(jb, u) ==
    Cardinality({i \in DOMAIN jb :
        jb[i].user_id = u /\ jb[i].status = "processing" /\ voice_filter(jb[i])})

QueuedVoice(jb, u) ==
    {i \in DOMAIN jb : jb[i].user_id = u /\ jb[i].status = "queued" /\ voice_filter(jb[i])}

\* ... WHERE status = 'queued' ORDER BY created_at_ms ASC LIMIT 1
newest_queued(jb, u) ==
    CHOOSE i \in QueuedVoice(jb, u) : \A j \in QueuedVoice(jb, u) :
        \/ jb[i].created_at_ms > jb[j].created_at_ms
        \/ jb[i].created_at_ms = jb[j].created_at_ms /\ i >= j
oldest_queued(jb, u) ==
    CHOOSE i \in QueuedVoice(jb, u) : \A j \in QueuedVoice(jb, u) :
        \/ jb[i].created_at_ms < jb[j].created_at_ms
        \/ jb[i].created_at_ms = jb[j].created_at_ms /\ i <= j

NewVoiceJob(u, k, status, char_count, t) ==
    [user_id |-> u, api_key_id |-> k, status |-> status, job_type |-> "voice",
     credits_charged |-> char_count, created_at_ms |-> t,
     full_text |-> (status = "queued"),
     metadata_like_image |-> LikeImage("voice", "none")]

InitLifecycle ==
    /\ now = 0
    /\ packages \in {<<NewPackage("u1", c, TOPUP_DAYS, "admin_topup", 0)>> : c \in StartCredits}
    /\ InitCommon
    /\ call = NoCall
    /\ credits_balance = [u \in Users |-> 0]
    /\ jobs = <<>>
    /\ api_key_usage = [k \in Keys |-> NoUsage]
    /\ api_key_concurrent = [k \in Keys |-> 0]
    /\ user_concurrent = [u \in Users |-> 0]
    /\ flows = [f \in Handlers |-> Idle]
    /\ sweep = <<>>
    /\ audit = <<>>

\* if total_credits < char_count: raise HTTPException(402, ...)
InsufficientCreditsNever(total_credits, cost) == FALSE
InsufficientCredits(total_credits, cost) == total_credits < cost

\* Submissions that have not yet written their job row.
Submitting ==
    {g \in DOMAIN flows :
        flows[g].pc \in {"synthesize_body", "api_synthesize_body",
                         "api_synthesize_acquire", "api_synthesize_http",
                         "image_body"}}

\* voice_synthesize up to await request.json(): authentication and the
\* choice of the provider key.
SynBegin(f, u) ==
    /\ Free(flows[f])
    /\ Len(jobs) + Cardinality(Submitting) < MaxJobs
    /\ flows' = [flows EXCEPT ![f] =
          [Idle EXCEPT !.op = "voice_synthesize", !.pc = "synthesize_body",
                       !.user = u, !.key = get_voicer_api_key]]
    /\ UNCHANGED <<now, ledgerVars, call, credits_balance, jobs, limiterVars, sweep, audit>>

\* The transaction of voice_synthesize: the credits check, the slot count,
\* the deduction, the job row.  A queued job is answered at once.
SynAdmitWith(f, char_count, voice_settings) ==
    LET fl == flows[f]
        u == fl.user
        total_credits == get_total_credits_from_packages(packages, u, now)
        should_queue == active_processing(jobs, u) >= concurrent_slots(u)
        task_status == IF should_queue THEN "queued" ELSE "processing"
        task_id == Len(jobs) + 1
    IN  /\ fl.pc = "synthesize_body"
        /\ IF \/ InsufficientCredits(total_credits, char_count)
              \/ ~deduct_ok(packages, u, char_count, now)
           THEN /\ flows' = [flows EXCEPT ![f] = Returned(@, "402")]
                /\ UNCHANGED <<packages, credits_used, jobs, audit>>
           ELSE /\ packages' = deduct_credits_from_packages(packages, u, char_count, now)
                /\ credits_used' = [credits_used EXCEPT ![u] = @ + char_count]
                /\ jobs' = Append(jobs,
                      [NewVoiceJob(u, fl.key, task_status, char_count, now) EXCEPT
                          !.metadata_like_image = LikeImage("voice", voice_settings)])
                /\ audit' = Append(audit, NoAudit)
                /\ flows' = [flows EXCEPT ![f] =
                      IF should_queue
                      THEN Returned(@, "200")
                      ELSE [@ EXCEPT !.pc = "synthesize_acquire", !.job = task_id,
                                     !.credits = char_count]]
        /\ UNCHANGED <<now, referral_credits_earned, referred_count, call,
                       credits_balance, limiterVars, sweep>>

\* The same for a body without voice_settings.
SynAdmit(f, char_count) == SynAdmitWith(f, char_count, "none")

\* await rate_limiter.acquire_concurrent(api_key_id, user["id"])
SynAcquire(f) ==
    LET fl == flows[f]
    IN  /\ fl.pc = "synthesize_acquire"
        /\ api_key_concurrent' = acquire_concurrent(api_key_concurrent, fl.key)
        /\ user_concurrent' = acquire_concurrent(user_concurrent, fl.user)
        /\ flows' = [flows EXCEPT ![f].pc = "synthesize_http"]
        /\ UNCHANGED <<now, ledgerVars, call, credits_balance, jobs, api_key_usage,
                       sweep, audit>>

\* The provider's answer to POST /voice/synthesize.
SynResponse(f, answer) ==
    LET fl == flows[f]
    IN  /\ fl.pc = "synthesize_http"
        /\ flows' = [flows EXCEPT ![f] =
              CASE answer = "ok" -> Returned(@, "200")
                [] answer = "error" -> [@ EXCEPT !.pc = "synthesize_failed"]
                [] OTHER -> [@ EXCEPT !.pc = "synthesize_release", !.result = "504"]]
        /\ audit' = IF answer = "ok" THEN [audit EXCEPT ![fl.job].dispatched = @ + 1]
                    ELSE audit
        /\ UNCHANGED <<now, ledgerVars, call, credits_balance, jobs, limiterVars, sweep>>

\* The branch for an answer other than 200: release, mark failed, raise.
SynFailed(f) ==
    LET fl == flows[f]
    IN  /\ fl.pc = "synthesize_failed"
        /\ api_key_concurrent' = release_concurrent(api_key_concurrent, fl.key)
        /\ user_concurrent' = release_concurrent(user_concurrent, fl.user)
        /\ jobs' = SetStatus(jobs, fl.job, "failed")
        /\ flows' = [flows EXCEPT ![f] = [@ EXCEPT !.pc = "synthesize_release",
                                                   !.result = "500"]]
        /\ UNCHANGED <<now, ledgerVars, call, credits_balance, api_key_usage, sweep, audit>>

\* except httpx.TimeoutException / except Exception (which also catches the
\* HTTPException raised by the branch above): release, mark failed, raise.
SynRelease(f) ==
    LET fl == flows[f]
    IN  /\ fl.pc = "synthesize_release"
        /\ api_key_concurrent' = release_concurrent(api_key_concurrent, fl.key)
        /\ user_concurrent' = release_concurrent(user_concurrent, fl.user)
        /\ jobs' = SetStatus(jobs, fl.job, "failed")
        /\ flows' = [flows EXCEPT ![f] = Returned(@, fl.result)]
        /\ UNCHANGED <<now, ledgerVars, call, credits_balance, api_key_usage, sweep, audit>>

\* voice_status up to its first await.  A queued job that is not the oldest
\* of the queue, or finds no free slot, and a terminal job are answered at
\* once; the oldest queued job with a free slot is sent to the provider; a
\* processing job is looked up at the provider.
StatusBegin(f, j) ==
    LET job == jobs[j]
        u == job.user_id
        result ==
            IF job.status = "queued"
            THEN IF oldest_queued(jobs, u) # j THEN "queued"
                 ELSE IF active_processing(jobs, u) < concurrent_slots(u) /\ job.full_text
                      THEN "promote" ELSE "queued"
            ELSE IF job.status = "processing" THEN "lookup" ELSE job.status
    IN  /\ Free(flows[f])
        /\ j \in DOMAIN jobs
        /\ IsVoice(job)
        /\ flows' = [flows EXCEPT ![f] =
              CASE result = "promote" ->
                     [Idle EXCEPT !.op = "voice_status", !.pc = "promote_http", !.user = u,
                                  !.key = get_voicer_api_key, !.job = j,
                                  !.status = job.status]
                [] result = "lookup" ->
                     [Idle EXCEPT !.op = "voice_status", !.pc = "status_http", !.user = u,
                                  !.job = j, !.status = job.status]
                [] OTHER ->
                     Returned(@, "200")]
        /\ UNCHANGED <<now, ledgerVars, call, credits_balance, jobs, limiterVars, sweep, audit>>

\* The provider's answer to the POST that starts a queued job: on 200 the job
\* is set to processing; otherwise it stays queued.
PromoteResponse(f, answer) ==
    LET fl == flows[f]
    IN  /\ fl.pc = "promote_http"
        /\ IF answer = "ok"
           THEN /\ jobs' = [SetStatus(jobs, fl.job, "processing") EXCEPT
                               ![fl.job].full_text = FALSE]
                /\ audit' = [audit EXCEPT ![fl.job].dispatched = @ + 1]
                /\ flows' = [flows EXCEPT ![f].pc = "promote_acquire"]
           ELSE /\ flows' = [flows EXCEPT ![f] = Returned(@, "200")]
                /\ UNCHANGED <<jobs, audit>>
        /\ UNCHANGED <<now, ledgerVars, call, credits_balance, limiterVars, sweep>>

\* await rate_limiter.acquire_concurrent(api_key_id, user["id"])
PromoteAcquire(f) ==
    LET fl == flows[f]
    IN  /\ fl.pc = "promote_acquire"
        /\ api_key_concurrent' = acquire_concurrent(api_key_concurrent, fl.key)
        /\ user_concurrent' = acquire_concurrent(user_concurrent, fl.user)
        /\ flows' = [flows EXCEPT ![f] = Returned(@, "200")]
        /\ UNCHANGED <<now, ledgerVars, call, credits_balance, jobs, api_key_usage,
                       sweep, audit>>

\* "Only update if still processing": the second read of the job.
StillProcessing(jb, j) == jb[j].status = "processing"

\* The provider's answer to GET /voice/status: an error marks the job failed,
\* completed and failed are taken over, each only if the job read again is
\* still processing; anything else leaves the job alone.
StatusResponse(f, answer) ==
    LET fl == flows[f]
        status == IF answer = "error" THEN "failed" ELSE answer
    IN  /\ fl.pc = "status_http"
        /\ flows' = [flows EXCEPT ![f] =
              IF status \in {"completed", "failed"} /\ StillProcessing(jobs, fl.job)
              THEN [@ EXCEPT !.pc = "status_release", !.status = status,
                             !.key = jobs[fl.job].api_key_id]
              ELSE Returned(@, "200")]
        /\ UNCHANGED <<now, ledgerVars, call, credits_balance, jobs, limiterVars, sweep, audit>>

\* await rate_limiter.release_concurrent(...), then the UPDATE of the status.
StatusRelease(f) ==
    LET fl == flows[f]
    IN  /\ fl.pc = "status_release"
        /\ api_key_concurrent' = release_concurrent(api_key_concurrent, fl.key)
        /\ user_concurrent' = release_concurrent(user_concurrent, fl.user)
        /\ jobs' = SetStatus(jobs, fl.job, fl.status)
        /\ flows' = [flows EXCEPT ![f] = Returned(@, "200")]
        /\ UNCHANGED <<now, ledgerVars, call, credits_balance, api_key_usage, sweep, audit>>

Cancellable == {"pending", "processing", "queued"}

\* if job["status"] not in ("pending", "processing", "queued"): raise 400
CancelRejectedUnlessCompleted(status) == status \notin Cancellable \cup {"completed"}
CancelRejected(status) == status \notin Cancellable

\* if job["status"] in ("completed", "failed", "cancelled"): raise 400
ApiCancelRejected(status) == status \in Terminal

\* The end of both cancel handlers: the job becomes cancelled, the credits
\* charged come back as a 7-day package, credits_used goes down by them.
CancelCommit(f, j, u, credits_charged, apply_referral) ==
    /\ jobs' = SetStatus(jobs, j, "cancelled")
    /\ audit' = [audit EXCEPT ![j].refunded = @ + Max(credits_charged, 0)]
    /\ IF credits_charged > 0
       THEN /\ packages' = add_credit_package(packages, u, credits_charged, REFUND_DAYS,
                                              "refund", apply_referral, referred_count, now)
            /\ referral_credits_earned' = BonusEarned(referral_credits_earned, u,
                                              credits_charged, "refund", apply_referral,
                                              referred_count)
            /\ credits_used' = [credits_used EXCEPT ![u] = @ - credits_charged]
       ELSE UNCHANGED <<packages, referral_credits_earned, credits_used>>
    /\ flows' = [flows EXCEPT ![f] = Returned(@, "200")]

\* cancel_task up to its first await.  A job that is not pending, processing
\* or queued is refused; a processing voice job is first cancelled at the
\* provider; a queued or pending job is cancelled and refunded at once.
CancelBegin(f, j) ==
    LET job == jobs[j]
    IN  /\ Free(flows[f])
        /\ j \in DOMAIN jobs
        /\ IF CancelRejected(job.status)
           THEN /\ flows' = [flows EXCEPT ![f] =
                      Returned(@, "400")]
                /\ UNCHANGED <<ledgerVars, jobs, audit>>
           ELSE IF job.status = "processing"
           THEN /\ flows' = [flows EXCEPT ![f] =
                      [Idle EXCEPT !.op = "cancel_task",
                                   !.pc = IF IsVoice(job) THEN "cancel_http"
                                          ELSE "cancel_release",
                                   !.user = job.user_id, !.key = job.api_key_id, !.job = j,
                                   !.status = job.status, !.credits = job.credits_charged]]
                /\ UNCHANGED <<ledgerVars, jobs, audit>>
           ELSE /\ CancelCommit(f, j, job.user_id, job.credits_charged, FALSE)
                /\ UNCHANGED referred_count
        /\ UNCHANGED <<now, call, credits_balance, limiterVars, sweep>>

\* The provider's answer to POST /voice/cancel; whatever it is, the handler
\* goes on.
CancelResponse(f) ==
    /\ flows[f].pc = "cancel_http"
    /\ flows' = [flows EXCEPT ![f].pc = "cancel_release"]
    /\ UNCHANGED <<now, ledgerVars, call, credits_balance, jobs, limiterVars, sweep, audit>>

\* await rate_limiter.release_concurrent(...), then the UPDATE to cancelled
\* and the refund, from the job as it was read at the start.
CancelRelease(f) ==
    LET fl == flows[f]
    IN  /\ fl.pc = "cancel_release"
        /\ api_key_concurrent' = release_concurrent(api_key_concurrent, fl.key)
        /\ user_concurrent' = release_concurrent(user_concurrent, fl.user)
        /\ CancelCommit(f, fl.job, fl.user, fl.credits, FALSE)
        /\ UNCHANGED <<now, referred_count, call, credits_balance, api_key_usage, sweep>>

\* api_v1_cancel_task up to its first await.  A terminal job is refused; a
\* processing job is first cancelled at the provider; any other job is
\* refunded and cancelled at once.
ApiCancelBegin(f, j) ==
    LET job == jobs[j]
    IN  /\ Free(flows[f])
        /\ j \in DOMAIN jobs
        /\ IF ApiCancelRejected(job.status)
           THEN /\ flows' = [flows EXCEPT ![f] =
                      Returned(@, "400")]
                /\ UNCHANGED <<ledgerVars, jobs, audit>>
           ELSE IF job.status = "processing"
           THEN /\ flows' = [flows EXCEPT ![f] =
                      [Idle EXCEPT !.op = "api_v1_cancel_task", !.pc = "api_cancel_http",
                                   !.user = job.user_id, !.key = job.api_key_id, !.job = j,
                                   !.status = job.status, !.credits = job.credits_charged]]
                /\ UNCHANGED <<ledgerVars, jobs, audit>>
           ELSE /\ CancelCommit(f, j, job.user_id, job.credits_charged, TRUE)
                /\ UNCHANGED referred_count
        /\ UNCHANGED <<now, call, credits_balance, limiterVars, sweep>>

\* The provider's answer to DELETE /voice/cancel, then the refund and the
\* UPDATE to cancelled, from the job as it was read at the start.  The
\* concurrency slot is not released.
ApiCancelResponse(f) ==
    LET fl == flows[f]
    IN  /\ fl.pc = "api_cancel_http"
        /\ CancelCommit(f, fl.job, fl.user, fl.credits, TRUE)
        /\ UNCHANGED <<now, referred_count, call, credits_balance, limiterVars, sweep>>

\* if job["status"] not in ("pending", "processing"): raise 400
AdminCancelRejected(status) == status \notin {"pending", "processing"}

\* admin_cancel_task up to its first await: the job is read, and refused
\* unless it is pending or processing.
AdminCancelBegin(f, j) ==
    LET job == jobs[j]
    IN  /\ Free(flows[f])
        /\ j \in DOMAIN jobs
        /\ flows' = [flows EXCEPT ![f] =
              IF AdminCancelRejected(job.status)
              THEN Returned(@, "400")
              ELSE [Idle EXCEPT !.op = "admin_cancel_task", !.pc = "admin_cancel_release",
                                !.user = job.user_id, !.key = job.api_key_id, !.job = j,
                                !.status = job.status, !.credits = job.credits_charged]]
        /\ UNCHANGED <<now, ledgerVars, call, credits_balance, jobs, limiterVars, sweep, audit>>

\* await rate_limiter.release_concurrent(...), then the UPDATE to cancelled
\* and the refund to users.credits_balance, from the job as it was read.
AdminCancelRelease(f) ==
    LET fl == flows[f]
        refund == fl.credits > 0 /\ Finite(credits_balance[fl.user])
    IN  /\ fl.pc = "admin_cancel_release"
        /\ api_key_concurrent' = release_concurrent(api_key_concurrent, fl.key)
        /\ user_concurrent' = release_concurrent(user_concurrent, fl.user)
        /\ jobs' = SetStatus(jobs, fl.job, "cancelled")
        /\ credits_balance' = IF refund
                              THEN [credits_balance EXCEPT ![fl.user] = @ + fl.credits]
                              ELSE credits_balance
        /\ credits_used' = IF refund THEN [credits_used EXCEPT ![fl.user] = @ - fl.credits]
                           ELSE credits_used
        /\ audit' = IF refund THEN [audit EXCEPT ![fl.job].refunded = @ + fl.credits]
                    ELSE audit
        /\ flows' = [flows EXCEPT ![f] = Returned(@, "200")]
        /\ UNCHANGED <<now, packages, referral_credits_earned, referred_count, call,
                       api_key_usage, sweep>>

\* WHERE status = 'processing' AND created_at_ms < now - STUCK_THRESHOLD_MS
stuck_jobs_pending(jb, t) ==
    {i \in DOMAIN jb :
        jb[i].status = "pending" /\ jb[i].created_at_ms < t - STUCK_THRESHOLD_MS}
stuck_jobs(jb, t) ==
    {i \in DOMAIN jb :
        jb[i].status = "processing" /\ jb[i].created_at_ms < t - STUCK_THRESHOLD_MS}

RECURSIVE InRowidOrder(_)
InRowidOrder(rows) ==
    IF rows = {} THEN <<>>
    ELSE LET i == CHOOSE r \in rows : \A q \in rows : r <= q
         IN <<i>> \o InRowidOrder(rows \ {i})

\* A pass of cleanup_stuck_tasks begins: the SELECT of the stuck jobs.
SweepBegin ==
    /\ sweep = <<>>
    /\ stuck_jobs(jobs, now) # {}
    /\ sweep' = InRowidOrder(stuck_jobs(jobs, now))
    /\ UNCHANGED <<now, ledgerVars, call, credits_balance, jobs, limiterVars, flows, audit>>

\* One turn of its loop: await release_concurrent, then the UPDATE to failed.
SweepJobRefunding ==
    /\ sweep # <<>>
    /\ LET j == Head(sweep)
       IN  /\ api_key_concurrent' = release_concurrent(api_key_concurrent, jobs[j].api_key_id)
           /\ user_concurrent' = release_concurrent(user_concurrent, jobs[j].user_id)
           /\ jobs' = SetStatus(jobs, j, "failed")
           /\ packages' = Append(packages, NewPackage(jobs[j].user_id, jobs[j].credits_charged,
                                                      REFUND_DAYS, "refund", now))
    /\ sweep' = Tail(sweep)
    /\ UNCHANGED <<now, credits_used, referral_credits_earned, referred_count, call,
                   credits_balance, api_key_usage, flows, audit>>
SweepJob ==
    /\ sweep # <<>>
    /\ LET j == Head(sweep)
       IN  /\ api_key_concurrent' = release_concurrent(api_key_concurrent, jobs[j].api_key_id)
           /\ user_concurrent' = release_concurrent(user_concurrent, jobs[j].user_id)
           /\ jobs' = SetStatus(jobs, j, "failed")
    /\ sweep' = Tail(sweep)
    /\ UNCHANGED <<now, ledgerVars, call, credits_balance, api_key_usage, flows, audit>>

Next ==
    \/ \E f \in DOMAIN flows : SynBegin(f, "u1")
    \/ \E f \in DOMAIN flows, char_count \in JobCosts : SynAdmit(f, char_count)
    \/ \E f \in DOMAIN flows : SynAcquire(f)
    \/ \E f \in DOMAIN flows, answer \in SynthesizeAnswers : SynResponse(f, answer)
    \/ \E f \in DOMAIN flows : SynFailed(f)
    \/ \E f \in DOMAIN flows : SynRelease(f)
    \/ \E f \in DOMAIN flows, j \in DOMAIN jobs : StatusBegin(f, j)
    \/ \E f \in DOMAIN flows, answer \in PromoteAnswers : PromoteResponse(f, answer)
    \/ \E f \in DOMAIN flows : PromoteAcquire(f)
    \/ \E f \in DOMAIN flows, answer \in StatusAnswers : StatusResponse(f, answer)
    \/ \E f \in DOMAIN flows : StatusRelease(f)
    \/ \E f \in DOMAIN flows, j \in DOMAIN jobs : CancelBegin(f, j)
    \/ \E f \in DOMAIN flows : CancelResponse(f)
    \/ \E f \in DOMAIN flows : CancelRelease(f)
    \/ \E f \in DOMAIN flows, j \in DOMAIN jobs : ApiCancelBegin(f, j)
    \/ \E f \in DOMAIN flows : ApiCancelResponse(f)
    \/ \E f \in DOMAIN flows, j \in DOMAIN jobs : AdminCancelBegin(f, j)
    \/ \E f \in DOMAIN flows : AdminCancelRelease(f)
    \/ SweepBegin
    \/ SweepJob
    \/ Tick

Spec == InitLifecycle /\ [][Next]_vars

\* ------------------------------------------------------ lifecycle properties

\* What a handler that finds its job already terminal has to leave alone.
Untouched ==
    UNCHANGED <<jobs, packages, credits_used, credits_balance, referral_credits_earned,
                api_key_concurrent, user_concurrent>>

\* The step in which a web cancel or a status poll writes the outcome it has
\* decided on.
Commits(f) ==
    \/ CancelRelease(f)
    \/ StatusRelease(f)

\* C2: when a cancel, the stuck-job sweep and a status poll target the same
\* processing job (one the provider has accepted), one of them makes it
\* terminal; each of the others finds the job terminal when it comes to
\* write, and then changes neither the job, the ledger nor the admission
\* counters.
C2_LosersChangeNothing ==
    [][ /\ \A f \in DOMAIN flows :
              /\ Commits(f)
              /\ jobs[flows[f].job].status \in Terminal
              /\ audit[flows[f].job].dispatched > 0
              => Untouched
        /\ /\ SweepJob
           /\ jobs[Head(sweep)].status \in Terminal
           /\ audit[Head(sweep)].dispatched > 0
           => Untouched ]_vars

\* C3: a job whose status is completed, failed or cancelled keeps that status
\* in every later step.
C3_TerminalIsFinal ==
    [][ \A j \in DOMAIN jobs :
            jobs[j].status \in Terminal => jobs'[j].status = jobs[j].status ]_vars

\* C4: over all cancel calls on a job, the credits given back for it never
\* exceed its credits_charged.
C4_RefundAtMostOnce ==
    \A j \in DOMAIN jobs : audit[j].refunded <= jobs[j].credits_charged

\* C5: a step that cancels a queued job refunds exactly its credits_charged,
\* and a job cancelled while queued is not handed to the provider afterwards
\* and does not become processing.
C5_QueuedCancelIsFinal ==
    [][ \A j \in DOMAIN jobs :
          /\ jobs[j].status = "queued" /\ jobs'[j].status = "cancelled" =>
                audit'[j].refunded = audit[j].refunded + jobs[j].credits_charged
          /\ jobs[j].status = "cancelled" /\ jobs[j].full_text =>
                /\ audit'[j].dispatched = audit[j].dispatched
                /\ jobs'[j].status = "cancelled" ]_vars

\* C6: a cancel (web or API key) called on a job that is completed, failed or
\* cancelled answers 400 and leaves the job, the credit packages,
\* credits_used and the admission counters as they were.
C6_TerminalCancelRejected ==
    [][ \A f \in DOMAIN flows, j \in DOMAIN jobs :
            jobs[j].status \in Terminal /\ (CancelBegin(f, j) \/ ApiCancelBegin(f, j)) =>
                /\ flows'[f] = Returned(flows[f], "400")
                /\ Untouched
                /\ UNCHANGED <<api_key_usage, audit>> ]_vars

C6_Witness ==
    \E f \in DOMAIN flows, j \in DOMAIN jobs :
        /\ flows[f].pc = "done" /\ flows[f].result = "400"
        /\ jobs[j].status \in Terminal
        /\ audit[j].refunded = 0

\* -------------------------------------------- concurrent submissions (SpecSubmit)

MaxHeld == 2             \* slots a user may hold when one more API submission begins

SubmitCosts == {0, 5, 10}

\* user_api_keys.hourly_limit or 100
user_key_hourly_limit(u) == 100

\* SELECT COUNT(*) FROM jobs WHERE user_id = ? AND created_at_ms > now - 1 hour
recent_requests(jb, u, t) ==
    Cardinality({i \in DOMAIN jb : jb[i].user_id = u /\ jb[i].created_at_ms > t - HOUR})

InitSubmit == InitLifecycle

\* api_v1_synthesize up to await request.json(): the key, the user and the
\* hourly limit on the user's jobs.
ApiSynBegin(f, u) ==
    /\ Free(flows[f])
    /\ Len(jobs) + Cardinality(Submitting) < MaxJobs
    /\ user_concurrent[u] < MaxHeld
    /\ flows' = [flows EXCEPT ![f] =
          IF recent_requests(jobs, u, now) >= user_key_hourly_limit(u)
          THEN Returned(@, "429")
          ELSE [Idle EXCEPT !.op = "api_v1_synthesize", !.pc = "api_synthesize_body",
                            !.user = u]]
    /\ UNCHANGED <<now, ledgerVars, call, credits_balance, jobs, limiterVars, sweep, audit>>

\* The end of api_v1_synthesize: the deduction, which checks the balance
\* again, then the job row.
ApiSynCommit(f, u, k, task_status, char_count) ==
    IF ~deduct_ok(packages, u, char_count, now)
    THEN /\ flows' = [flows EXCEPT ![f] = Returned(@, "402")]
         /\ UNCHANGED <<packages, credits_used, jobs, audit>>
    ELSE /\ packages' = deduct_credits_from_packages(packages, u, char_count, now)
         /\ credits_used' = [credits_used EXCEPT ![u] = @ + char_count]
         /\ jobs' = Append(jobs, NewVoiceJob(u, k, task_status, char_count, now))
         /\ audit' = Append(audit, [NoAudit EXCEPT !.dispatched =
                                       IF task_status = "processing" THEN 1 ELSE 0])
         /\ flows' = [flows EXCEPT ![f] = Returned(@, "200")]

\* The body is validated, the balance is compared with the cost and the slots
\* are counted.  A job to be queued is charged and stored at once; otherwise
\* the handler goes on to take a concurrency slot.
ApiSynCheck(f, char_count) ==
    LET fl == flows[f]
        u == fl.user
        total_credits == get_total_credits_from_packages(packages, u, now)
        should_queue == active_processing(jobs, u) >= concurrent_slots(u)
    IN  /\ fl.pc = "api_synthesize_body"
        /\ IF char_count = 0
           THEN /\ flows' = [flows EXCEPT ![f] = Returned(@, "400")]
                /\ UNCHANGED <<packages, credits_used, jobs, audit>>
           ELSE IF InsufficientCredits(total_credits, char_count)
           THEN /\ flows' = [flows EXCEPT ![f] = Returned(@, "402")]
                /\ UNCHANGED <<packages, credits_used, jobs, audit>>
           ELSE IF should_queue
           THEN ApiSynCommit(f, u, get_voicer_api_key, "queued", char_count)
           ELSE /\ flows' = [flows EXCEPT ![f] =
                      [@ EXCEPT !.pc = "api_synthesize_acquire",
                                !.key = get_voicer_api_key, !.credits = char_count]]
                /\ UNCHANGED <<packages, credits_used, jobs, audit>>
        /\ UNCHANGED <<now, referral_credits_earned, referred_count, call,
                       credits_balance, limiterVars, sweep>>

\* await rate_limiter.acquire_concurrent(api_key_id, user["id"])
ApiSynAcquire(f) ==
    LET fl == flows[f]
    IN  /\ fl.pc = "api_synthesize_acquire"
        /\ api_key_concurrent' = acquire_concurrent(api_key_concurrent, fl.key)
        /\ user_concurrent' = acquire_concurrent(user_concurrent, fl.user)
        /\ flows' = [flows EXCEPT ![f].pc = "api_synthesize_http"]
        /\ UNCHANGED <<now, ledgerVars, call, credits_balance, jobs, api_key_usage,
                       sweep, audit>>

\* The provider's answer to POST /voice/synthesize: on 200 the job is charged
\* and stored as processing; another answer leads to the release of the slot;
\* a timeout is not caught.
ApiSynResponse(f, answer) ==
    LET fl == flows[f]
    IN  /\ fl.pc = "api_synthesize_http"
        /\ CASE answer = "ok" ->
                  ApiSynCommit(f, fl.user, fl.key, "processing", fl.credits)
             [] answer = "error" ->
                  /\ flows' = [flows EXCEPT ![f].pc = "api_synthesize_release"]
                  /\ UNCHANGED <<packages, credits_used, jobs, audit>>
             [] OTHER ->
                  /\ flows' = [flows EXCEPT ![f] = Returned(@, "500")]
                  /\ UNCHANGED <<packages, credits_used, jobs, audit>>
        /\ UNCHANGED <<now, referral_credits_earned, referred_count, call,
                       credits_balance, limiterVars, sweep>>

\* await rate_limiter.release_concurrent(api_key_id, user["id"]), then raise.
ApiSynRelease(f) ==
    LET fl == flows[f]
    IN  /\ fl.pc = "api_synthesize_release"
        /\ api_key_concurrent' = release_concurrent(api_key_concurrent, fl.key)
        /\ user_concurrent' = release_concurrent(user_concurrent, fl.user)
        /\ flows' = [flows EXCEPT ![f] = Returned(@, "500")]
        /\ UNCHANGED <<now, ledgerVars, call, credits_balance, jobs, api_key_usage,
                       sweep, audit>>

NextSubmit ==
    \/ \E f \in DOMAIN flows : SynBegin(f, "u1")
    \/ \E f \in DOMAIN flows, char_count \in SubmitCosts : SynAdmit(f, char_count)
    \/ \E f \in DOMAIN flows : SynAcquire(f)
    \/ \E f \in DOMAIN flows, answer \in SynthesizeAnswers : SynResponse(f, answer)
    \/ \E f \in DOMAIN flows : SynFailed(f)
    \/ \E f \in DOMAIN flows : SynRelease(f)
    \/ \E f \in DOMAIN flows : ApiSynBegin(f, "u1")
    \/ \E f \in DOMAIN flows, char_count \in SubmitCosts : ApiSynCheck(f, char_count)
    \/ \E f \in DOMAIN flows : ApiSynAcquire(f)
    \/ \E f \in DOMAIN flows, answer \in SynthesizeAnswers : ApiSynResponse(f, answer)
    \/ \E f \in DOMAIN flows : ApiSynRelease(f)

SpecSubmit == InitSubmit /\ [][NextSubmit]_vars

SumCharged(jb, u) ==
    SumSeq([i \in DOMAIN jb |-> IF jb[i].user_id = u THEN jb[i].credits_charged ELSE 0])

SumInitial(pk, u) ==
    SumSeq([i \in DOMAIN pk |-> IF pk[i].user_id = u THEN pk[i].credits_initial ELSE 0])

\* C7: whatever submissions of a user run concurrently, the credits charged
\* to the jobs accepted never exceed the balance that was available, and
\* every credit charged was taken from a package: two submissions whose costs
\* together exceed the balance are not both accepted.
C7_ChargesWithinBalance ==
    \A u \in Users :
        /\ SumCharged(jobs, u) <= SumInitial(packages, u)
        /\ SumCharged(jobs, u) + get_total_credits_from_packages(packages, u, now)
              = SumInitial(packages, u)

\* One submission has passed the balance check of api_v1_synthesize and
\* waits for the provider; another has since been charged, and what is left
\* does not cover the first.
C7_Witness ==
    \E f \in DOMAIN flows :
        /\ flows[f].pc = "api_synthesize_http"
        /\ Len(jobs) = 1
        /\ get_total_credits_from_packages(packages, flows[f].user, now) < flows[f].credits


\* ------------------------------------------------ the available balance

\* The user's packages that hold credits and have not reached expires_at_ms.
LivePackages(u) ==
    {i \in DOMAIN packages :
        /\ packages[i].user_id = u
        /\ packages[i].credits_remaining > 0
        /\ packages[i].expires_at_ms > now}

\* C11: the available balance of a user is the sum of credits_remaining over
\* exactly the user's packages with credits_remaining > 0 and expires_at_ms
\* after now; it is never negative; a package whose expires_at_ms has been
\* reached adds nothing to the balance and is left as it was by a deduction.
C11_BalanceOfLivePackages ==
    \A u \in Users :
        LET balance == get_total_credits_from_packages(packages, u, now)
        IN /\ balance = SumSeq([i \in 1..Len(packages) |->
                                   IF i \in LivePackages(u)
                                   THEN packages[i].credits_remaining ELSE 0])
           /\ balance >= 0
           /\ call.pc = "out" =>
                  \A i \in DOMAIN packages :
                      call.before[i].expires_at_ms <= now => packages[i] = call.before[i]

\* A successful deduction at the instant one of the user's packages expires:
\* that package still holds its credits and a later one has paid.
C11_Witness ==
    /\ call.pc = "out" /\ call.ok /\ call.amount > 0
    /\ \E i \in DOMAIN packages :
           /\ packages[i].user_id = call.user
           /\ packages[i].expires_at_ms = now
           /\ packages[i].credits_remaining > 0
    /\ get_total_credits_from_packages(packages, call.user, now) > 0


\* -------------------------------------------------- slots and processing

\* No request handler is between two of its steps and no sweep is under way.
Quiescent == (\A f \in DOMAIN flows : Free(flows[f])) /\ sweep = <<>>

\* C12: a slot acquired for a job is given back exactly once when the job
\* leaves processing, on every path; so once every job is completed, failed
\* or cancelled and no handler is in flight, every concurrency counter is 0.
C12_NoSlotLeftBehind ==
    (Quiescent /\ \A j \in DOMAIN jobs : jobs[j].status \in Terminal) =>
        /\ \A k \in Keys : api_key_concurrent[k] = 0
        /\ \A u \in Users : user_concurrent[u] = 0


\* C13: when the sweep and a status poll that reports completion meet on one
\* stuck job, only one of the two transitions takes effect and the job's slot
\* is released once: a job the poll has already completed is left completed
\* by the sweep, and the counters are not decremented for it again.
C13_SweepSparesCompleted ==
    [][ (SweepJob /\ jobs[Head(sweep)].status = "completed") =>
            /\ jobs'[Head(sweep)].status = "completed"
            /\ UNCHANGED <<api_key_concurrent, user_concurrent>> ]_vars


\* ------------------------------------------------------- the stuck-job sweep
\* cleanup_stuck_tasks runs as a task of the server for as long as the process
\* lives and its database can be opened: a pass every 5 minutes, an exception
\* of a pass being logged and the loop going on.  Its steps and the clock are therefore taken fairly, while
\* request handlers may stop at any await and polls need not arrive at all.
\* The clock of a run is bounded, so job rows are written while the run is
\* long enough for them to pass the threshold.

LastSubmitTime == MaxNow - STUCK_THRESHOLD_MS - 1

SweepAdmit(f, char_count) == now <= LastSubmitTime /\ SynAdmit(f, char_count)

NextSweep ==
    \/ \E f \in DOMAIN flows : SynBegin(f, "u1")
    \/ \E f \in DOMAIN flows, char_count \in JobCosts : SweepAdmit(f, char_count)
    \/ \E f \in DOMAIN flows : SynAcquire(f)
    \/ \E f \in DOMAIN flows, answer \in SynthesizeAnswers : SynResponse(f, answer)
    \/ \E f \in DOMAIN flows : SynFailed(f)
    \/ \E f \in DOMAIN flows : SynRelease(f)
    \/ \E f \in DOMAIN flows, j \in DOMAIN jobs : StatusBegin(f, j)
    \/ \E f \in DOMAIN flows, answer \in PromoteAnswers : PromoteResponse(f, answer)
    \/ \E f \in DOMAIN flows : PromoteAcquire(f)
    \/ \E f \in DOMAIN flows, answer \in StatusAnswers : StatusResponse(f, answer)
    \/ \E f \in DOMAIN flows : StatusRelease(f)
    \/ SweepBegin
    \/ SweepJob
    \/ Tick

SpecSweep ==
    /\ InitLifecycle
    /\ [][NextSweep]_vars
    /\ WF_vars(Tick) /\ WF_vars(SweepBegin) /\ WF_vars(SweepJob)

\* C14: with the sweep scheduled fairly, every job that is processing
\* eventually becomes completed, failed or cancelled, whether or not a
\* provider answer or a status poll for it ever arrives.
C14_ProcessingEnds ==
    \A j \in 1..MaxJobs :
        (j \in DOMAIN jobs /\ jobs[j].status = "processing")
            ~> (j \in DOMAIN jobs /\ jobs[j].status \in Terminal)

\* A job the provider accepted has been failed after the threshold, its slot
\* is free again and no handler is at work.
C14_Witness ==
    /\ Quiescent
    /\ \E j \in DOMAIN jobs :
           /\ jobs[j].status = "failed"
           /\ audit[j].dispatched > 0
           /\ jobs[j].created_at_ms < now - STUCK_THRESHOLD_MS
           /\ user_concurrent[jobs[j].user_id] = 0


\* ------------------------------------------------------ the queue of a user
\* A user with one slot whose first job is processing and whose later jobs
\* wait in the queue; the jobs are polled through both status endpoints in
\* any order, the provider answers as it likes, and the sweep runs.

QueueLen == 3            \* queued jobs behind the processing one

\* created_at_ms of the queued jobs, in the order of their submission.
QueueTimes ==
    {c \in [1..QueueLen -> 0..1] : \A i \in 1..(QueueLen - 1) : c[i] <= c[i + 1]}

InitQueue ==
    LET cost == CHOOSE c \in JobCosts : TRUE
        k == get_voicer_api_key
    IN  /\ now = 1
        /\ packages = <<[NewPackage("u1", cost * (QueueLen + 1), TOPUP_DAYS, "admin_topup", 0)
                           EXCEPT !.credits_remaining = 0]>>
        /\ credits_used = [u \in Users |-> IF u = "u1" THEN cost * (QueueLen + 1) ELSE 0]
        /\ referral_credits_earned = [u \in Users |-> 0]
        /\ referred_count = [u \in Users |-> 0]
        /\ call = NoCall
        /\ credits_balance = [u \in Users |-> 0]
        /\ \E c \in QueueTimes :
               jobs = <<[NewVoiceJob("u1", k, "processing", cost, 0) EXCEPT !.full_text = FALSE]>>
                      \o [i \in 1..QueueLen |-> NewVoiceJob("u1", k, "queued", cost, c[i])]
        /\ api_key_usage = [x \in Keys |-> NoUsage]
        /\ api_key_concurrent = [x \in Keys |-> IF x = k THEN 1 ELSE 0]
        /\ user_concurrent = [u \in Users |-> IF u = "u1" THEN 1 ELSE 0]
        /\ flows = [f \in Handlers |-> Idle]
        /\ sweep = <<>>
        /\ audit = <<[NoAudit EXCEPT !.dispatched = 1]>> \o [i \in 1..QueueLen |-> NoAudit]

\* api_v1_status up to its first await: the oldest queued voice job of the
\* user is sent to the provider when a slot is free; every other job is
\* answered from the row and, if processing, from the provider, without a
\* write.
ApiStatusBegin(f, j) ==
    LET job == jobs[j]
        u == job.user_id
        promote == /\ job.status = "queued"
                   /\ oldest_queued(jobs, u) = j
                   /\ active_processing(jobs, u) < concurrent_slots(u)
                   /\ job.full_text
    IN  /\ Free(flows[f])
        /\ j \in DOMAIN jobs
        /\ flows' = [flows EXCEPT ![f] =
              IF promote
              THEN [Idle EXCEPT !.op = "api_v1_status", !.pc = "promote_http", !.user = u,
                                !.key = get_voicer_api_key, !.job = j, !.status = job.status]
              ELSE Returned(@, "200")]
        /\ UNCHANGED <<now, ledgerVars, call, credits_balance, jobs, limiterVars, sweep, audit>>

NextQueue ==
    \/ \E f \in DOMAIN flows, j \in DOMAIN jobs : StatusBegin(f, j)
    \/ \E f \in DOMAIN flows, j \in DOMAIN jobs : ApiStatusBegin(f, j)
    \/ \E f \in DOMAIN flows, answer \in PromoteAnswers : PromoteResponse(f, answer)
    \/ \E f \in DOMAIN flows : PromoteAcquire(f)
    \/ \E f \in DOMAIN flows, answer \in StatusAnswers : StatusResponse(f, answer)
    \/ \E f \in DOMAIN flows : StatusRelease(f)
    \/ SweepBegin
    \/ SweepJob
    \/ Tick

SpecQueue == InitQueue /\ [][NextQueue]_vars

\* Rows of jobs are inserted in the order of submission.
SubmittedBefore(i, j) ==
    i < j /\ jobs[i].user_id = jobs[j].user_id /\ jobs[i].job_type = jobs[j].job_type

C16_ProcessingWithinSlots ==
    \A u \in Users : active_processing(jobs, u) <= concurrent_slots(u)


\* ------------------------------------------------------------ image_generate
\* POST /api/image/generate.  The providers differ in the last step only: a
\* Fast Gen provider answers with an operation id and the job stays
\* processing until it is polled, VoidAI and Naga answer with the images.

ImageAnswers == {"operation", "completed", "error"}

\* users.image_concurrent_slots
image_concurrent_slots(u) == IF u = "u1" THEN 1 ELSE 3

\* get_whisk_api_key(): the least recently used active row of api_keys.
get_whisk_api_key == "k1"

\* SELECT COUNT(*) FROM jobs WHERE user_id = ? AND status IN ('processing')
\* AND metadata_json LIKE '%"type":"image"%'
active_image_processing(jb, u) ==
    Cardinality({i \in DOMAIN jb :
        jb[i].user_id = u /\ jb[i].status = "processing" /\ image_filter(jb[i])})

NewImageJob(u, k, status, credits_cost, t) ==
    [user_id |-> u, api_key_id |-> k, status |-> status, job_type |-> "image",
     credits_charged |-> credits_cost, created_at_ms |-> t,
     full_text |-> (status = "queued"),
     metadata_like_image |-> LikeImage("image", "none")]

\* image_generate up to await request.json().
ImgBegin(f, u) ==
    /\ Free(flows[f])
    /\ Len(jobs) + Cardinality(Submitting) < MaxJobs
    /\ flows' = [flows EXCEPT ![f] =
          [Idle EXCEPT !.op = "image_generate", !.pc = "image_body", !.user = u]]
    /\ UNCHANGED <<now, ledgerVars, call, credits_balance, jobs, limiterVars, sweep, audit>>

\* The provider key, the cost and the transaction of image_generate: the
\* credits check, the slot count, the deduction, the job row.  A failed
\* deduction is rolled back; a queued job is answered at once.
ImgAdmit(f, credits_cost) ==
    LET fl == flows[f]
        u == fl.user
        total_credits == get_total_credits_from_packages(packages, u, now)
        should_queue == active_image_processing(jobs, u) >= image_concurrent_slots(u)
        task_status == IF should_queue THEN "queued" ELSE "processing"
        task_id == Len(jobs) + 1
    IN  /\ fl.pc = "image_body"
        /\ IF \/ InsufficientCredits(total_credits, credits_cost)
              \/ ~deduct_ok(packages, u, credits_cost, now)
           THEN /\ flows' = [flows EXCEPT ![f] = Returned(@, "402")]
                /\ UNCHANGED <<packages, credits_used, jobs, audit>>
           ELSE /\ packages' = deduct_credits_from_packages(packages, u, credits_cost, now)
                /\ credits_used' = [credits_used EXCEPT ![u] = @ + credits_cost]
                /\ jobs' = Append(jobs, NewImageJob(u, get_whisk_api_key, task_status,
                                                    credits_cost, now))
                /\ audit' = Append(audit, NoAudit)
                /\ flows' = [flows EXCEPT ![f] =
                      IF should_queue
                      THEN Returned(@, "200")
                      ELSE [@ EXCEPT !.pc = "image_acquire", !.key = get_whisk_api_key,
                                     !.job = task_id, !.credits = credits_cost]]
        /\ UNCHANGED <<now, referral_credits_earned, referred_count, call,
                       credits_balance, limiterVars, sweep>>

\* await rate_limiter.acquire_concurrent(api_key_id, user["id"])
ImgAcquire(f) ==
    LET fl == flows[f]
    IN  /\ fl.pc = "image_acquire"
        /\ api_key_concurrent' = acquire_concurrent(api_key_concurrent, fl.key)
        /\ user_concurrent' = acquire_concurrent(user_concurrent, fl.user)
        /\ flows' = [flows EXCEPT ![f].pc = "image_http"]
        /\ UNCHANGED <<now, ledgerVars, call, credits_balance, jobs, api_key_usage,
                       sweep, audit>>

\* The provider's answer: an operation id is stored and the job stays
\* processing; images are stored and the job is set to completed; anything
\* else leads to the branch that fails the job.
ImgResponse(f, answer) ==
    LET fl == flows[f]
    IN  /\ fl.pc = "image_http"
        /\ CASE answer = "operation" ->
                  /\ flows' = [flows EXCEPT ![f] = Returned(@, "200")]
                  /\ audit' = [audit EXCEPT ![fl.job].dispatched = @ + 1]
                  /\ UNCHANGED jobs
             [] answer = "completed" ->
                  /\ flows' = [flows EXCEPT ![f].pc = "image_release"]
                  /\ audit' = [audit EXCEPT ![fl.job].dispatched = @ + 1]
                  /\ jobs' = SetStatus(jobs, fl.job, "completed")
             [] OTHER ->
                  /\ flows' = [flows EXCEPT ![f].pc = "image_failed"]
                  /\ UNCHANGED <<jobs, audit>>
        /\ UNCHANGED <<now, ledgerVars, call, credits_balance, limiterVars, sweep>>

\* await rate_limiter.release_concurrent(...), UPDATE jobs SET status =
\* 'failed', raise.
ImgFailed(f) ==
    LET fl == flows[f]
    IN  /\ fl.pc = "image_failed"
        /\ api_key_concurrent' = release_concurrent(api_key_concurrent, fl.key)
        /\ user_concurrent' = release_concurrent(user_concurrent, fl.user)
        /\ jobs' = SetStatus(jobs, fl.job, "failed")
        /\ flows' = [flows EXCEPT ![f] = Returned(@, "500")]
        /\ UNCHANGED <<now, ledgerVars, call, credits_balance, api_key_usage, sweep, audit>>

\* await rate_limiter.release_concurrent(...) after the images were stored.
ImgRelease(f) ==
    LET fl == flows[f]
    IN  /\ fl.pc = "image_release"
        /\ api_key_concurrent' = release_concurrent(api_key_concurrent, fl.key)
        /\ user_concurrent' = release_concurrent(user_concurrent, fl.user)
        /\ flows' = [flows EXCEPT ![f] = Returned(@, "200")]
        /\ UNCHANGED <<now, ledgerVars, call, credits_balance, jobs, api_key_usage,
                       sweep, audit>>

\* The three submission endpoints side by side.
NextSubmission ==
    \/ NextSubmit
    \/ \E f \in DOMAIN flows : ImgBegin(f, "u1")
    \/ \E f \in DOMAIN flows, credits_cost \in SubmitCosts : ImgAdmit(f, credits_cost)
    \/ \E f \in DOMAIN flows : ImgAcquire(f)
    \/ \E f \in DOMAIN flows, answer \in ImageAnswers : ImgResponse(f, answer)
    \/ \E f \in DOMAIN flows : ImgFailed(f)
    \/ \E f \in DOMAIN flows : ImgRelease(f)

SpecSubmission == InitSubmit /\ [][NextSubmission]_vars

MaxBonusCredits == 21    \* largest package added
MaxBonusCalls == 2       \* packages added in a run

TierCounts == {0, 24, 25, 69, 70, 71}

InitReferral ==
    /\ now = 0
    /\ packages = <<>>
    /\ credits_used = [u \in Users |-> 0]
    /\ referral_credits_earned = [u \in Users |-> 0]
    /\ referred_count \in {[u \in Users |-> IF u = "u2" THEN c ELSE 0] : c \in TierCounts}
    /\ call = NoCall
    /\ NoServer

\* _add_credit_package(con, u, credits, 30, source="purchase")
ReferralApply(u, credits) ==
    /\ Cardinality({i \in DOMAIN packages : packages[i].source = "purchase"}) < MaxBonusCalls
    /\ packages' = add_credit_package(packages, u, credits, 30, "purchase", TRUE,
                                      referred_count, now)
    /\ referral_credits_earned' =
           BonusEarned(referral_credits_earned, u, credits, "purchase", TRUE, referred_count)
    /\ call' = [pc |-> "bonus", user |-> u, credits |-> credits, before |-> packages,
                earned |-> referral_credits_earned]
    /\ UNCHANGED <<now, credits_used, referred_count, serverVars>>

NextReferral ==
    \E u \in Users, credits \in 1..MaxBonusCredits : ReferralApply(u, credits)

SpecReferral == InitReferral /\ [][NextReferral]_vars

\* The rows a call added after the package itself.
BonusRows == SubSeq(packages, Len(call.before) + 2, Len(packages))

\* The rate in percent as the tiers are stated.
TierPercent(n) == IF n < 25 THEN 5 ELSE IF n <= 69 THEN 10 ELSE 15

\* C18: the referral rate is 5% for a referrer with fewer than 25 referred
\* users, 10% for 25 to 69 and 15% for 70 or more; the bonus is
\* floor(credits_added * rate), granted to the referrer as one referral_bonus
\* package and added to referral_credits_earned; a bonus of 0 grants nothing.
C18_TieredFloorBonus ==
    (call.pc = "bonus" /\ referrer_id(call.user) # NoUser) =>
        LET r == referrer_id(call.user)
            scaled == call.credits * TierPercent(referred_count[r])
        IN  /\ Len(BonusRows) = (IF scaled >= 100 THEN 1 ELSE 0)
            /\ \A i \in DOMAIN BonusRows :
                   /\ BonusRows[i].user_id = r
                   /\ BonusRows[i].source = "referral_bonus"
                   /\ BonusRows[i].credits_remaining = BonusRows[i].credits_initial
                   /\ 100 * BonusRows[i].credits_initial <= scaled
                   /\ scaled < 100 * (BonusRows[i].credits_initial + 1)
                   /\ referral_credits_earned[r] = call.earned[r] + BonusRows[i].credits_initial
            /\ BonusRows = <<>> => referral_credits_earned = call.earned

\* 7 credits added for a user whose referrer has exactly 25 referred users:
\* the rate is 10%, the bonus floor(0.7) = 0, and no package is granted.
C18_Witness ==
    /\ call.pc = "bonus" /\ call.user = "u1" /\ call.credits = 7
    /\ referred_count["u2"] = 25
    /\ Len(packages) = Len(call.before) + 1
    /\ referral_credits_earned = call.earned


\* _add_credit_package under every source and either value of the flag.

BonusCredits == {7, 100, 1000}
PackageSourcesAll == {"purchase", "admin", "admin_topup", "refund", "referral_bonus"}

\* _add_credit_package(con, u, credits, duration_days, source, apply_referral)
BonusApply(u, credits, source, apply_referral) ==
    /\ IF call.pc = "add" THEN call.before = <<>> ELSE TRUE    \* two calls in a run
    /\ packages' = add_credit_package(packages, u, credits, 30, source, apply_referral,
                                      referred_count, now)
    /\ referral_credits_earned' =
           BonusEarned(referral_credits_earned, u, credits, source, apply_referral,
                       referred_count)
    /\ call' = [pc |-> "add", user |-> u, credits |-> credits, source |-> source,
                apply_referral |-> apply_referral, before |-> packages,
                earned |-> referral_credits_earned]
    /\ UNCHANGED <<now, credits_used, referred_count, serverVars>>

NextBonus ==
    \E u \in Users, credits \in BonusCredits, source \in PackageSourcesAll,
       apply_referral \in BOOLEAN :
        BonusApply(u, credits, source, apply_referral)

SpecBonus == InitReferral /\ [][NextBonus]_vars

\* C19: a package whose source is refund or referral_bonus never brings a
\* referral bonus: the call adds that one package and nobody's
\* referral_credits_earned changes.  A bonus goes to the referrer of the user
\* who received the package and to nobody further up the chain.
C19_NoBonusFromRefundOrBonus ==
    call.pc = "add" =>
        /\ call.source \in {"refund", "referral_bonus"} =>
               /\ Len(packages) = Len(call.before) + 1
               /\ referral_credits_earned = call.earned
        /\ Len(packages) <= Len(call.before) + 2
        /\ \A i \in (Len(call.before) + 2)..Len(packages) :
               packages[i].user_id = referrer_id(call.user)
        /\ \A u \in Users :
               u # referrer_id(call.user) => referral_credits_earned[u] = call.earned[u]

\* After a refund of 1000 credits to u1, added with the flag at its default,
\* a purchase of 1000 by u1: u2 holds the only bonus package, and u3, who
\* referred u2, holds and has earned nothing.
C19_Witness ==
    /\ call.pc = "add" /\ call.user = "u1" /\ call.source = "purchase" /\ call.credits = 1000
    /\ Len(call.before) = 1
    /\ call.before[1].source = "refund" /\ call.before[1].credits_initial = 1000
    /\ Len(packages) = 3
    /\ packages[3].user_id = "u2" /\ packages[3].source = "referral_bonus"
    /\ packages[3].credits_initial >= 50
    /\ referral_credits_earned["u3"] = 0


\* C20: an admin top-up of c credits to a user who has a referrer adds the
\* package to the user and, when floor(c * rate) > 0, also grants the
\* referrer a referral_bonus package of that amount and raises the
\* referrer's referral_credits_earned by it.
C20_TopupGrantsBonus ==
    [][ \A u \in Users, c \in TopupCredits :
            (admin_topup_user(u, c) /\ referrer_id(u) # NoUser) =>
                LET r == referrer_id(u)
                    bonus == (c * TierPercent(referred_count[r])) \div 100
                    n == Len(packages)
                IN  /\ packages'[n + 1] = NewPackage(u, c, TOPUP_DAYS, "admin_topup", now)
                    /\ bonus > 0 =>
                           /\ Len(packages') = n + 2
                           /\ packages'[n + 2] =
                                  NewPackage(r, bonus, BONUS_DAYS, "referral_bonus", now)
                           /\ referral_credits_earned'[r] = referral_credits_earned[r] + bonus ]_vars


\* ------------------------------------------------- POST /api/admin/sync-concurrent
\* admin_sync_concurrent reads the processing jobs grouped by user and key,
\* then, under the rate limiter's lock, clears both counter tables and adds
\* the counts up again.

\* WHERE status = 'processing'
IsProcessingOrQueued(job) == job.status \in {"processing", "queued"}
IsProcessing(job) == job.status = "processing"

\* SELECT user_id, api_key_id, COUNT(*) as cnt FROM jobs
\* WHERE status = 'processing' GROUP BY user_id, api_key_id
processing_jobs(jb) ==
    LET cnt(u, k) == Cardinality({i \in DOMAIN jb :
                         IsProcessing(jb[i]) /\ jb[i].user_id = u /\ jb[i].api_key_id = k})
    IN {[user_id |-> u, api_key_id |-> k, cnt |-> cnt(u, k)] :
            <<u, k>> \in {x \in Users \X Keys : cnt(x[1], x[2]) > 0}}

\* The loop over the rows: table[id] = table.get(id, 0) + count
RECURSIVE SyncRebuild(_, _, _)
SyncRebuild(rows, table, column) ==
    IF rows = {} THEN table
    ELSE LET job == CHOOSE r \in rows : TRUE
         IN SyncRebuild(rows \ {job}, [table EXCEPT ![job[column]] = @ + job.cnt], column)

\* admin_sync_concurrent up to async with rate_limiter._lock: the SELECT.
SyncBegin(f) ==
    /\ Free(flows[f])
    /\ flows' = [flows EXCEPT ![f] =
          [Idle EXCEPT !.op = "admin_sync_concurrent", !.pc = "sync_lock",
                       !.scan = processing_jobs(jobs)]]
    /\ UNCHANGED <<now, ledgerVars, call, credits_balance, jobs, limiterVars, sweep, audit>>

\* Under the lock: clear() of both tables and the loop over the rows read.
SyncInstall(f) ==
    LET fl == flows[f]
    IN  /\ fl.pc = "sync_lock"
        /\ api_key_concurrent' = SyncRebuild(fl.scan, [k \in Keys |-> 0], "api_key_id")
        /\ user_concurrent' = SyncRebuild(fl.scan, [u \in Users |-> 0], "user_id")
        /\ flows' = [flows EXCEPT ![f] = Returned(@, "200")]
        /\ UNCHANGED <<now, ledgerVars, call, credits_balance, jobs, api_key_usage,
                       sweep, audit>>

\* The endpoint on its own: a table of jobs and counters that have drifted
\* are drawn, and one request runs with no other handler at work.
MaxSyncJobs == 3         \* rows of the jobs table drawn for the sync

SyncUsers == {"u1", "u2"}
SyncStatuses == {"processing", "queued", "completed"}
DriftedCounts == {0, 2}

SyncRows ==
    {NewVoiceJob(u, k, status, 5, 0) : u \in SyncUsers, k \in Keys, status \in SyncStatuses}

InitResync ==
    /\ now = 0
    /\ packages = <<>>
    /\ InitCommon
    /\ call = NoCall
    /\ credits_balance = [u \in Users |-> 0]
    /\ jobs \in UNION {[1..n -> SyncRows] : n \in 0..MaxSyncJobs}
    /\ api_key_usage = [k \in Keys |-> NoUsage]
    /\ \E c \in DriftedCounts :
           /\ api_key_concurrent = [k \in Keys |-> c]
           /\ user_concurrent = [u \in Users |-> c]
    /\ flows = [f \in {"h1"} |-> Idle]
    /\ sweep = <<>>
    /\ audit = [i \in DOMAIN jobs |-> NoAudit]

NextResync ==
    \/ \E f \in DOMAIN flows : flows[f].pc = "idle" /\ SyncBegin(f)
    \/ \E f \in DOMAIN flows : SyncInstall(f)

SpecResync == InitResync /\ [][NextResync]_vars

ProcessingOfKey(jb, k) ==
    Cardinality({i \in DOMAIN jb : jb[i].status = "processing" /\ jb[i].api_key_id = k})

ProcessingOfUser(jb, u) ==
    Cardinality({i \in DOMAIN jb : jb[i].status = "processing" /\ jb[i].user_id = u})

CountersMatchJobs(kc, uc, jb) ==
    /\ \A k \in Keys : kc[k] = ProcessingOfKey(jb, k)
    /\ \A u \in Users : uc[u] = ProcessingOfUser(jb, u)

\* C21: after a sync the counter of every key is the number of jobs with
\* status processing assigned to the key and the counter of every user the
\* number of the user's processing jobs, which is 0 for a key or a user
\* without one, whatever the counters were before.
C21_SyncInstallsProcessingCounts ==
    [][ \A f \in DOMAIN flows :
            (SyncInstall(f) /\ flows[f].scan = processing_jobs(jobs)) =>
                CountersMatchJobs(api_key_concurrent', user_concurrent', jobs') ]_vars

\* A sync has answered: u1 has two processing jobs on different keys and a
\* queued one, u2 has none, and the counters that had drifted to 2 say so.
C21_Witness ==
    /\ \E f \in DOMAIN flows : flows[f].pc = "done" /\ flows[f].result = "200"
    /\ Len(jobs) = 3
    /\ \E i, j, q \in DOMAIN jobs :
           /\ jobs[i].status = "processing" /\ jobs[i].api_key_id = "k1"
           /\ jobs[j].status = "processing" /\ jobs[j].api_key_id = "k2"
           /\ jobs[q].status = "queued"
           /\ \A x \in {i, j, q} : jobs[x].user_id = "u1"
    /\ user_concurrent = [u \in Users |-> IF u = "u1" THEN 2 ELSE 0]
    /\ api_key_concurrent = [k \in Keys |-> 1]


\* The sync among the traffic of the voice endpoints: submissions, status
\* polls with their promotions and releases, and syncs, in any interleaving.
NextSync ==
    \/ \E f \in DOMAIN flows : SynBegin(f, "u1")
    \/ \E f \in DOMAIN flows, char_count \in JobCosts : SynAdmit(f, char_count)
    \/ \E f \in DOMAIN flows : SynAcquire(f)
    \/ \E f \in DOMAIN flows, answer \in SynthesizeAnswers : SynResponse(f, answer)
    \/ \E f \in DOMAIN flows : SynFailed(f)
    \/ \E f \in DOMAIN flows : SynRelease(f)
    \/ \E f \in DOMAIN flows, j \in DOMAIN jobs : StatusBegin(f, j)
    \/ \E f \in DOMAIN flows, answer \in PromoteAnswers : PromoteResponse(f, answer)
    \/ \E f \in DOMAIN flows : PromoteAcquire(f)
    \/ \E f \in DOMAIN flows, answer \in StatusAnswers : StatusResponse(f, answer)
    \/ \E f \in DOMAIN flows : StatusRelease(f)
    \/ \E f \in DOMAIN flows : SyncBegin(f)
    \/ \E f \in DOMAIN flows : SyncInstall(f)

SpecSync == InitLifecycle /\ [][NextSync]_vars

\* C22: a sync that runs among submissions, promotions and releases installs
\* counters equal to the numbers of processing jobs stored at the moment it
\* installs them.
C22_SyncInstallsCurrentCounts ==
    [][ \A f \in DOMAIN flows :
            SyncInstall(f) =>
                CountersMatchJobs(api_key_concurrent', user_concurrent', jobs') ]_vars


\* ------------------------------------------------- release_concurrent, twice
\* Two users submit to POST /api/voice/synthesize at the same time; their
\* jobs go to the same provider key.

Submitters == {"u1", "u2"}

InitRelease ==
    /\ now = 0
    /\ packages = <<NewPackage("u1", 10, TOPUP_DAYS, "admin_topup", 0),
                    NewPackage("u2", 10, TOPUP_DAYS, "admin_topup", 0)>>
    /\ InitCommon
    /\ call = NoCall
    /\ credits_balance = [u \in Users |-> 0]
    /\ jobs = <<>>
    /\ api_key_usage = [k \in Keys |-> NoUsage]
    /\ api_key_concurrent = [k \in Keys |-> 0]
    /\ user_concurrent = [u \in Users |-> 0]
    /\ flows = [f \in Handlers |-> Idle]
    /\ sweep = <<>>
    /\ audit = <<>>

NextRelease ==
    \/ \E f \in DOMAIN flows, u \in Submitters : SynBegin(f, u)
    \/ \E f \in DOMAIN flows, char_count \in JobCosts : SynAdmit(f, char_count)
    \/ \E f \in DOMAIN flows : SynAcquire(f)
    \/ \E f \in DOMAIN flows, answer \in SynthesizeAnswers : SynResponse(f, answer)
    \/ \E f \in DOMAIN flows : SynFailed(f)
    \/ \E f \in DOMAIN flows : SynRelease(f)

SpecRelease == InitRelease /\ [][NextRelease]_vars

\* C23: a second release_concurrent for a job whose slot has already been
\* given back leaves both counters as they are, so that the slots of the
\* other jobs in flight stay counted.  Here the job was failed and released
\* by the branch for a provider answer other than 200, and the handler's
\* except clause releases for it again.
C23_SecondReleaseChangesNothing ==
    [][ \A f \in DOMAIN flows :
            (SynRelease(f) /\ jobs[flows[f].job].status = "failed") =>
                UNCHANGED <<api_key_concurrent, user_concurrent>> ]_vars


\* ------------------------------------------------- voice and image side by side
\* One user with one voice slot and one image slot submits voice and image
\* jobs in any order; the provider answers as it likes.

NextCategories ==
    \/ \E f \in DOMAIN flows : SynBegin(f, "u1")
    \/ \E f \in DOMAIN flows, char_count \in JobCosts, voice_settings \in VoiceSettings :
           SynAdmitWith(f, char_count, voice_settings)
    \/ \E f \in DOMAIN flows : SynAcquire(f)
    \/ \E f \in DOMAIN flows, answer \in SynthesizeAnswers : SynResponse(f, answer)
    \/ \E f \in DOMAIN flows : SynFailed(f)
    \/ \E f \in DOMAIN flows : SynRelease(f)
    \/ \E f \in DOMAIN flows : ImgBegin(f, "u1")
    \/ \E f \in DOMAIN flows, credits_cost \in JobCosts : ImgAdmit(f, credits_cost)
    \/ \E f \in DOMAIN flows : ImgAcquire(f)
    \/ \E f \in DOMAIN flows, answer \in ImageAnswers : ImgResponse(f, answer)
    \/ \E f \in DOMAIN flows : ImgFailed(f)
    \/ \E f \in DOMAIN flows : ImgRelease(f)

SpecCategories == InitLifecycle /\ [][NextCategories]_vars

\* The processing jobs of a user in the category of a job.
ProcessingOfCategory(jb, u, job_type) ==
    Cardinality({i \in DOMAIN jb :
        jb[i].user_id = u /\ jb[i].status = "processing" /\ jb[i].job_type = job_type})

SlotsOfCategory(u, job_type) ==
    IF job_type = "image" THEN image_concurrent_slots(u) ELSE concurrent_slots(u)

\* C24: whether a submission is queued depends only on the user's jobs of the
\* same category and on that category's slot limit: a new voice job is queued
\* exactly when the user's processing voice jobs fill concurrent_slots, a new
\* image job exactly when the user's processing image jobs fill
\* image_concurrent_slots, whatever jobs of the other category exist.
C24_QueuedByOwnCategory ==
    [][ Len(jobs') = Len(jobs) + 1 =>
            LET job == jobs'[Len(jobs')]
            IN  (job.status = "queued") <=>
                    (ProcessingOfCategory(jobs, job.user_id, job.job_type)
                        >= SlotsOfCategory(job.user_id, job.job_type)) ]_vars


\* ------------------------------------------------------------------- cancel

\* C25: a cancel by the web user, by the API-key user or by an admin is
\* accepted for a job that is queued or processing, and the step that sets
\* such a job to cancelled adds to its owner a refund package of exactly
\* credits_charged that expires after 7 days and lowers the owner's
\* credits_used by the same amount.
C25_CancelRefundsPackage ==
    [][ /\ \A f \in DOMAIN flows, j \in DOMAIN jobs :
              ( /\ jobs[j].status \in {"queued", "processing"}
                /\ (CancelBegin(f, j) \/ ApiCancelBegin(f, j) \/ AdminCancelBegin(f, j)) ) =>
                  flows'[f].result # "400"
        /\ \A j \in DOMAIN jobs :
              (jobs[j].status \in {"queued", "processing"} /\ jobs'[j].status = "cancelled") =>
                  LET u == jobs[j].user_id
                      charged == jobs[j].credits_charged
                  IN  /\ packages' = Append(packages,
                                            NewPackage(u, charged, REFUND_DAYS, "refund", now))
                      /\ credits_used'[u] = credits_used[u] - charged ]_vars


\* ------------------------------------------------------------------ failure
\* Every way of a job to failed: the provider refuses or does not answer a
\* submission, a status poll is answered with an error or with failed, the
\* sweep finds the job stuck; for voice jobs and for image jobs.

NextFail ==
    \/ NextSweep
    \/ \E f \in DOMAIN flows : ImgBegin(f, "u1")
    \/ \E f \in DOMAIN flows, credits_cost \in JobCosts : ImgAdmit(f, credits_cost)
    \/ \E f \in DOMAIN flows : ImgAcquire(f)
    \/ \E f \in DOMAIN flows, answer \in ImageAnswers : ImgResponse(f, answer)
    \/ \E f \in DOMAIN flows : ImgFailed(f)
    \/ \E f \in DOMAIN flows : ImgRelease(f)

SpecFail == InitLifecycle /\ [][NextFail]_vars

\* C26: the step in which a job becomes failed, whatever the cause, leaves
\* the credit packages, credits_used and credits_balance as they were: the
\* credits charged for the job are not given back.
C26_FailLeavesLedger ==
    [][ \A j \in DOMAIN jobs :
            (jobs[j].status # "failed" /\ jobs'[j].status = "failed") =>
                UNCHANGED <<packages, credits_used, credits_balance>> ]_vars

\* Two jobs of 5 credits have failed, one of them as stuck: the user's only
\* package is empty, credits_used stands at 10 and no slot is held.
C26_Witness ==
    /\ Len(jobs) = 2 /\ jobs[1].status = "failed" /\ jobs[2].status = "failed"
    /\ \E j \in DOMAIN jobs : jobs[j].created_at_ms < now - STUCK_THRESHOLD_MS
    /\ Len(packages) = 1 /\ packages[1].credits_remaining = 0
    /\ credits_used["u1"] = 10
    /\ Quiescent


\* ------------------------------------------------------ charge and dispatch

\* A submission whose request to the provider has been sent.
Dispatching == {"synthesize_http", "api_synthesize_http", "image_http"}

\* C27: in every submission path the cost is deducted and the job row is
\* written before anything is sent to the provider: a handler whose request
\* to the provider is under way has its job stored, charged with the cost.
C27_ChargedBeforeDispatch ==
    \A f \in DOMAIN flows :
        flows[f].pc \in Dispatching =>
            /\ flows[f].job \in DOMAIN jobs
            /\ jobs[flows[f].job].credits_charged = flows[f].credits
            /\ credits_used[flows[f].user] >= flows[f].credits


\* ---------------------------------------------------------------- promotion

\* C28: when the provider refuses the request that starts the oldest queued
\* job, or the request raises, the job becomes failed and holds no slot: it
\* does not stay queued.
C28_FailedPromotionFails ==
    [][ \A f \in DOMAIN flows :
            PromoteResponse(f, "error") =>
                /\ jobs'[flows[f].job].status = "failed"
                /\ UNCHANGED <<api_key_concurrent, user_concurrent>> ]_vars


\* ------------------------------------------------------ polling the queue
\* The queue of SpecQueue with clients that poll for ever: the polls of
\* queued jobs behind the oldest one keep coming, and a handler that waits
\* for the provider or for the lock goes on in the end, and a provider that is
\* asked again and again to start a job accepts it in the end.  Whether the
\* oldest queued job is polled is left open.  A poll that is answered from
\* the row leaves no trace in the state beyond the handler's answer.

\* GET /api/voice/status/{task_id} for a queued job that is not the oldest.
PollBehindOldest(f, j) ==
    /\ jobs[j].status = "queued"
    /\ oldest_queued(jobs, jobs[j].user_id) # j
    /\ StatusBegin(f, j)

NextPolling ==
    \/ \E f \in DOMAIN flows, j \in DOMAIN jobs : StatusBegin(f, j)
    \/ \E f \in DOMAIN flows, answer \in PromoteAnswers : PromoteResponse(f, answer)
    \/ \E f \in DOMAIN flows : PromoteAcquire(f)
    \/ \E f \in DOMAIN flows, answer \in StatusAnswers : StatusResponse(f, answer)
    \/ \E f \in DOMAIN flows : StatusRelease(f)

SpecPolling ==
    /\ InitQueue
    /\ [][NextPolling]_vars
    /\ WF_vars(\E f \in DOMAIN flows, j \in DOMAIN jobs : PollBehindOldest(f, j))
    /\ WF_vars(\E f \in DOMAIN flows, answer \in PromoteAnswers : PromoteResponse(f, answer))
    /\ SF_vars(\E f \in DOMAIN flows : PromoteResponse(f, "ok"))
    /\ WF_vars(\E f \in DOMAIN flows : PromoteAcquire(f))
    /\ WF_vars(\E f \in DOMAIN flows, answer \in StatusAnswers : StatusResponse(f, answer))
    /\ WF_vars(\E f \in DOMAIN flows : StatusRelease(f))

\* C29: a poll of any queued voice job of a user tries to start the oldest
\* one: while a slot is free and queued jobs of the user keep being polled,
\* the oldest queued job is started in the end, polled itself or not.
C29_OldestPromotedByAnyPoll ==
    \A j \in 2..(QueueLen + 1) :
        ( /\ jobs[j].status = "queued"
          /\ oldest_queued(jobs, "u1") = j
          /\ QueuedVoice(jobs, "u1") # {j}
          /\ active_processing(jobs, "u1") < concurrent_slots("u1") )
            ~> (jobs[j].status # "queued")



\* ------------------------------------------------------ check before acquire
\* The server with a balance for POST /api/generate beside the package for
\* the voice and image endpoints.
InitAcquire ==
    /\ now = 0
    /\ packages \in {<<NewPackage("u1", c, TOPUP_DAYS, "admin_topup", 0)>> : c \in StartCredits}
    /\ InitCommon
    /\ call = NoCall
    /\ credits_balance = [u \in Users |-> IF u = "u1" THEN 2 ELSE 0]
    /\ jobs = <<>>
    /\ api_key_usage = [k \in Keys |-> NoUsage]
    /\ api_key_concurrent = [k \in Keys |-> 0]
    /\ user_concurrent = [u \in Users |-> 0]
    /\ flows = [f \in Handlers |-> Idle]
    /\ sweep = <<>>
    /\ audit = <<>>

\* Every path of the server that calls rate_limiter.acquire_concurrent.
NextAcquire ==
    \/ \E f \in DOMAIN flows : GenBegin(f, "u1")
    \/ \E f \in DOMAIN flows : GenCheckApiKeyLimit(f)
    \/ \E f \in DOMAIN flows : GenCheckConcurrent(f)
    \/ \E f \in DOMAIN flows : GenAcquire(f)
    \/ \E f \in DOMAIN flows : GenTaskStart(f)
    \/ \E f \in DOMAIN flows, answer \in ProviderAnswers : GenTaskResponse(f, answer)
    \/ \E f \in DOMAIN flows : GenTaskUsage(f)
    \/ \E f \in DOMAIN flows : GenTaskRelease(f)
    \/ \E f \in DOMAIN flows : SynBegin(f, "u1")
    \/ \E f \in DOMAIN flows, char_count \in JobCosts : SynAdmit(f, char_count)
    \/ \E f \in DOMAIN flows : SynAcquire(f)
    \/ \E f \in DOMAIN flows, answer \in SynthesizeAnswers : SynResponse(f, answer)
    \/ \E f \in DOMAIN flows : SynFailed(f)
    \/ \E f \in DOMAIN flows : SynRelease(f)
    \/ \E f \in DOMAIN flows, j \in DOMAIN jobs : StatusBegin(f, j)
    \/ \E f \in DOMAIN flows, answer \in PromoteAnswers : PromoteResponse(f, answer)
    \/ \E f \in DOMAIN flows : PromoteAcquire(f)
    \/ \E f \in DOMAIN flows, answer \in StatusAnswers : StatusResponse(f, answer)
    \/ \E f \in DOMAIN flows : StatusRelease(f)
    \/ \E f \in DOMAIN flows : ImgBegin(f, "u1")
    \/ \E f \in DOMAIN flows, credits_cost \in JobCosts : ImgAdmit(f, credits_cost)
    \/ \E f \in DOMAIN flows : ImgAcquire(f)
    \/ \E f \in DOMAIN flows, answer \in ImageAnswers : ImgResponse(f, answer)
    \/ \E f \in DOMAIN flows : ImgFailed(f)
    \/ \E f \in DOMAIN flows : ImgRelease(f)

SpecAcquire == InitAcquire /\ [][NextAcquire]_vars

\* The handler is at the call of acquire_concurrent that follows a passed
\* rate_limiter.check_concurrent for its key and user.
PassedCheckConcurrent(f) == flows[f].pc = "acquire_concurrent"

\* The handler takes a step that calls rate_limiter.acquire_concurrent.
CallsAcquire(f) ==
    \/ GenAcquire(f)
    \/ SynAcquire(f)
    \/ PromoteAcquire(f)
    \/ ImgAcquire(f)

\* C30: every step that calls acquire_concurrent is taken by a handler that
\* has just passed check_concurrent for the same key and user: no submission
\* and no promotion raises the counters without that check.
C30_AcquireFollowsCheck ==
    [][ \A f \in DOMAIN flows : CallsAcquire(f) => PassedCheckConcurrent(f) ]_vars



\* ------------------------------------------------------------ hourly quota
\* The count of the key in the hour window that contains t: what the table
\* holds if its window is still open, 0 otherwise.
CountInWindow(usage, k, t) ==
    IF usage[k].present /\ t < usage[k].reset_at THEN usage[k].count ELSE 0

\* C31: check_api_key_limit refuses exactly when the key's count in the
\* current hour window has reached the limit, returns max(0, limit - count)
\* as remaining and a positive time to reset; it sets the count to 0 when the
\* stored window has expired and otherwise leaves the count, the other keys
\* and the concurrency counters as they were.
C31_CheckHourlyQuota ==
    [][ \A f \in DOMAIN flows :
            GenCheckApiKeyLimit(f) =>
                LET k == flows[f].key
                    count == CountInWindow(api_key_usage, k, now)
                IN  /\ (flows'[f].result = "429") <=> (count >= hourly_limit(k))
                    /\ api_key_usage'[k].count = count
                    /\ remaining_of(api_key_usage', k, hourly_limit(k))
                          = Max(0, hourly_limit(k) - count)
                    /\ reset_in_of(api_key_usage', k, now) > 0
                    /\ \A x \in Keys \ {k} : api_key_usage'[x] = api_key_usage[x]
                    /\ UNCHANGED <<api_key_concurrent, user_concurrent>> ]_vars

\* A key whose window of the first hour was used has been checked in the
\* second hour: its count is 0 again and the submission goes on.
C31_Witness ==
    /\ now = HOUR
    /\ api_key_usage["k1"].reset_at = 2 * HOUR
    /\ api_key_usage["k1"].count = 0
    /\ \E f \in DOMAIN flows : flows[f].pc = "check_concurrent"
    /\ \E j \in DOMAIN jobs : jobs[j].status = "completed"


\* The generation attempts sent to the image provider through key k: the
\* rows of the key that generate_image_task has taken up.
Dispatched(jb, k) == {j \in DOMAIN jb : jb[j].api_key_id = k /\ jb[j].status # "pending"}

\* C32: within one hour window the number of generation attempts sent to the
\* provider through one key never exceeds the key's hourly_limit, also when
\* several submissions pass check_api_key_limit at the same time.
C32_DispatchesWithinHourlyLimit ==
    \A k \in Keys : now < HOUR => Cardinality(Dispatched(jobs, k)) <= hourly_limit(k)



\* ------------------------------------------------------ the background tasks
\* cleanup_expired_files and cleanup_stuck_tasks as the lifespan starts them:
\* each is a loop of a pass inside try/except, log_event in the handler, and
\* asyncio.sleep.  A pass can fail where it opens the database or runs its
\* SELECT; log_event opens the database before its own try, so a failure to
\* open it there is raised out of the handler and ends the coroutine, while a
\* failure of its INSERT is caught.  The tasks are cancelled at shutdown
\* while they sleep.

Tasks == {"cleanup_expired_files", "cleanup_stuck_tasks"}
PassOutcomes == {"ok", "exception"}
LogOutcomes == {"ok", "insert_error", "open_error"}

InitTasks ==
    LET cost == CHOOSE c \in JobCosts : TRUE
        k == get_voicer_api_key
    IN  /\ now = 0
        /\ packages = <<[NewPackage("u1", 2 * cost, TOPUP_DAYS, "admin_topup", 0)
                           EXCEPT !.credits_remaining = 0]>>
        /\ credits_used = [u \in Users |-> IF u = "u1" THEN 2 * cost ELSE 0]
        /\ referral_credits_earned = [u \in Users |-> 0]
        /\ referred_count = [u \in Users |-> 0]
        /\ call = NoCall
        /\ credits_balance = [u \in Users |-> 0]
        /\ jobs \in {<<[NewVoiceJob("u1", k, "processing", cost, 0) EXCEPT !.full_text = FALSE],
                      [NewVoiceJob("u1", k, s, cost, 0) EXCEPT !.full_text = (s = "queued")]>> :
                        s \in {"queued", "completed"}}
        /\ api_key_usage = [x \in Keys |-> NoUsage]
        /\ api_key_concurrent = [x \in Keys |-> IF x = k THEN 1 ELSE 0]
        /\ user_concurrent = [u \in Users |-> IF u = "u1" THEN 1 ELSE 0]
        /\ flows = [f \in Tasks |-> [Idle EXCEPT !.op = f, !.pc = "pass"]]
        /\ sweep = <<>>
        /\ audit = <<[NoAudit EXCEPT !.dispatched = 1], NoAudit>>

\* A pass of cleanup_expired_files: it has no await, so it ends in one step,
\* either at the sleep or in the handler of its exception.  The model keeps
\* no image_path, so a pass that goes through changes no row.
ExpiredPass(f, outcome) ==
    /\ f = "cleanup_expired_files"
    /\ flows[f].pc = "pass"
    /\ flows' = [flows EXCEPT ![f].pc = IF outcome = "ok" THEN "sleep" ELSE "except"]
    /\ UNCHANGED <<now, ledgerVars, call, credits_balance, jobs, limiterVars, sweep, audit>>

\* A pass of cleanup_stuck_tasks up to its first await: db_conn and the
\* SELECT, which may raise; with no stuck job the pass is over.
StuckPass(f, outcome) ==
    /\ f = "cleanup_stuck_tasks"
    /\ flows[f].pc = "pass"
    /\ sweep = <<>>
    /\ IF outcome = "exception"
       THEN /\ flows' = [flows EXCEPT ![f].pc = "except"]
            /\ UNCHANGED sweep
       ELSE /\ sweep' = InRowidOrder(stuck_jobs(jobs, now))
            /\ flows' = [flows EXCEPT ![f].pc =
                           IF stuck_jobs(jobs, now) = {} THEN "sleep" ELSE "stuck_loop"]
    /\ UNCHANGED <<now, ledgerVars, call, credits_balance, jobs, limiterVars, audit>>

\* One turn of its loop, and the end of the pass after the last one.
StuckJob(f) ==
    /\ f = "cleanup_stuck_tasks"
    /\ flows[f].pc = "stuck_loop"
    /\ sweep # <<>>
    /\ LET j == Head(sweep)
       IN  /\ api_key_concurrent' = release_concurrent(api_key_concurrent, jobs[j].api_key_id)
           /\ user_concurrent' = release_concurrent(user_concurrent, jobs[j].user_id)
           /\ jobs' = SetStatus(jobs, j, "failed")
    /\ sweep' = Tail(sweep)
    /\ flows' = [flows EXCEPT ![f].pc = IF Tail(sweep) = <<>> THEN "sleep" ELSE "stuck_loop"]
    /\ UNCHANGED <<now, ledgerVars, call, credits_balance, api_key_usage, audit>>

\* except Exception as e: log_event("error", ...).  The result of the task
\* records whether the event was written.
TaskLog(f, outcome) ==
    /\ flows[f].pc = "except"
    /\ flows' = [flows EXCEPT ![f] =
          IF outcome = "open_error" THEN [@ EXCEPT !.pc = "stopped", !.result = "exception"]
          ELSE [@ EXCEPT !.pc = "sleep",
                         !.result = IF outcome = "ok" THEN "logged" ELSE "not_logged"]]
    /\ UNCHANGED <<now, ledgerVars, call, credits_balance, jobs, limiterVars, sweep, audit>>

\* asyncio.sleep returns: the next iteration of while True.
TaskWake(f) ==
    /\ flows[f].pc = "sleep"
    /\ flows' = [flows EXCEPT ![f].pc = "pass"]
    /\ UNCHANGED <<now, ledgerVars, call, credits_balance, jobs, limiterVars, sweep, audit>>

\* Shutdown: cleanup_task.cancel() and stuck_cleanup_task.cancel().
TaskCancel ==
    /\ \A f \in Tasks : flows[f].pc \in {"sleep", "stopped"}
    /\ \E f \in Tasks : flows[f].pc = "sleep"
    /\ flows' = [f \in Tasks |-> IF flows[f].pc = "sleep"
                                 THEN [flows[f] EXCEPT !.pc = "cancelled"] ELSE flows[f]]
    /\ UNCHANGED <<now, ledgerVars, call, credits_balance, jobs, limiterVars, sweep, audit>>

NextTasks ==
    \/ \E f \in Tasks, outcome \in PassOutcomes : ExpiredPass(f, outcome)
    \/ \E f \in Tasks, outcome \in PassOutcomes : StuckPass(f, outcome)
    \/ \E f \in Tasks : StuckJob(f)
    \/ \E f \in Tasks, outcome \in LogOutcomes : TaskLog(f, outcome)
    \/ \E f \in Tasks : TaskWake(f)
    \/ TaskCancel
    \/ Tick

\* The event loop runs every task that is ready: the steps of the two tasks
\* are taken fairly; the clock and the shutdown are not forced.
SpecTasks ==
    /\ InitTasks
    /\ [][NextTasks]_vars
    /\ \A f \in Tasks :
          /\ WF_vars(\E outcome \in PassOutcomes : ExpiredPass(f, outcome))
          /\ WF_vars(\E outcome \in PassOutcomes : StuckPass(f, outcome))
          /\ WF_vars(StuckJob(f))
          /\ WF_vars(\E outcome \in LogOutcomes : TaskLog(f, outcome))
          /\ WF_vars(TaskWake(f))

\* C33: a sweep keeps running after a failing pass: whenever a pass of a
\* background task has raised an exception, another pass of that task
\* follows, unless the task is cancelled at shutdown first.
C33_NextPassFollowsFailure ==
    \A f \in Tasks :
        (flows[f].pc = "except") ~> (flows[f].pc \in {"pass", "cancelled"})



\* --------------------------------------------------------- the pool of keys
\* get_voicer_api_key hands out the least recently used active key and marks
\* it as used, so with two keys in the pool the submissions of a run received
\* k1 and k2 in turn; the key a submission received is the api_key_id of its
\* row.  The poll that promotes a job asks the pool again.
PoolKey(i) == IF i % 2 = 1 THEN "k1" ELSE "k2"

InitPool ==
    LET cost == CHOOSE c \in JobCosts : TRUE
    IN  /\ now = 1
        /\ packages = <<[NewPackage("u1", cost * (QueueLen + 1), TOPUP_DAYS, "admin_topup", 0)
                           EXCEPT !.credits_remaining = 0]>>
        /\ credits_used = [u \in Users |-> IF u = "u1" THEN cost * (QueueLen + 1) ELSE 0]
        /\ referral_credits_earned = [u \in Users |-> 0]
        /\ referred_count = [u \in Users |-> 0]
        /\ call = NoCall
        /\ credits_balance = [u \in Users |-> 0]
        /\ \E c \in QueueTimes :
               jobs = <<[NewVoiceJob("u1", PoolKey(1), "processing", cost, 0)
                           EXCEPT !.full_text = FALSE]>>
                      \o [i \in 1..QueueLen |->
                            NewVoiceJob("u1", PoolKey(i + 1), "queued", cost, c[i])]
        /\ api_key_usage = [x \in Keys |-> NoUsage]
        /\ api_key_concurrent = [x \in Keys |-> IF x = PoolKey(1) THEN 1 ELSE 0]
        /\ user_concurrent = [u \in Users |-> IF u = "u1" THEN 1 ELSE 0]
        /\ flows = [f \in Handlers |-> Idle]
        /\ sweep = <<>>
        /\ audit = <<[NoAudit EXCEPT !.dispatched = 1]>> \o [i \in 1..QueueLen |-> NoAudit]

SpecPool == InitPool /\ [][NextPolling]_vars

\* C34: the key whose counter is raised when a job's slot is acquired is the
\* key whose counter is lowered when the slot is released.  Every release
\* (status poll, sweep, cancel) is made against the api_key_id of the job's
\* row, so the promotion of a queued job acquires on that key.
C34_PromotionAcquiresJobKey ==
    [][ \A f \in DOMAIN flows :
            PromoteAcquire(f) => flows[f].key = jobs[flows[f].job].api_key_id ]_vars



\* C35: a queued job is handed to the provider at most once, also when two
\* status polls of the same oldest queued job run at the same time: at most
\* one of them sends the generation request and acquires a slot for it.
C35_DispatchedAtMostOnce ==
    \A j \in DOMAIN jobs : audit[j].dispatched <= 1



\* ------------------------------------------------------- queue positions
\* SELECT COUNT(*) ... WHERE status = 'queued' AND created_at_ms < ?, plus 1:
\* the queue_position a poll of the queued job j answers.
queue_position(jb, j) ==
    Cardinality({i \in QueuedVoice(jb, jb[j].user_id) :
                    jb[i].created_at_ms < jb[j].created_at_ms}) + 1

\* C36: the queue positions of a user's queued voice jobs are the distinct
\* values 1..n in the order of submission, and the job chosen for promotion
\* is the one at position 1, also when two queued jobs have the same
\* created_at_ms.
C36_PositionsAreRanks ==
    \A u \in Users :
        LET queued == QueuedVoice(jobs, u)
        IN  /\ {queue_position(jobs, j) : j \in queued} = 1..Cardinality(queued)
            /\ \A i, j \in queued : i < j => queue_position(jobs, i) < queue_position(jobs, j)
            /\ \A j \in queued : queue_position(jobs, j) = 1 <=> j = oldest_queued(jobs, u)



\* C37: on POST /api/generate the deductions never take a user's finite
\* credits_balance below 0, also for concurrent submissions: it does not
\* reach -1, the value the same code reads as unlimited credits.
C37_BalanceStaysNonNegative ==
    [][ \A u \in Users : credits_balance[u] >= 0 => credits_balance'[u] >= 0 ]_vars



\* ------------------------------------------------------------ DELETE of a job
\* delete_job: 404 for a row that is not there, 403 for another user's row,
\* otherwise DELETE FROM jobs WHERE id = ?, whatever the status.  It has no
\* await.
DeleteJob(f, j, u) ==
    /\ Free(flows[f])
    /\ j \in DOMAIN jobs
    /\ IF jobs[j].status = "deleted"
       THEN /\ flows' = [flows EXCEPT ![f] = Returned(@, "404")]
            /\ UNCHANGED jobs
       ELSE IF jobs[j].user_id # u
       THEN /\ flows' = [flows EXCEPT ![f] = Returned(@, "403")]
            /\ UNCHANGED jobs
       ELSE /\ jobs' = [jobs EXCEPT ![j].status = "deleted"]
            /\ flows' = [flows EXCEPT ![f] = Returned(@, "200")]
    /\ UNCHANGED <<now, ledgerVars, call, credits_balance, limiterVars, sweep, audit>>

Deleters == {"u1", "u2"}

NextDelete ==
    \/ NextSweep
    \/ \E f \in DOMAIN flows, j \in DOMAIN jobs, u \in Deleters : DeleteJob(f, j, u)

SpecDelete == InitLifecycle /\ [][NextDelete]_vars

\* C38: a job row is not removed while it is processing and holds a slot:
\* DELETE /api/jobs/{job_id} on a processing job is either refused, the row
\* staying as it is, or it releases the job's slot, so that no slot stays
\* counted for a job the stuck-job sweep can no longer find.
C38_DeleteReleasesSlot ==
    [][ \A f \in DOMAIN flows, j \in DOMAIN jobs, u \in Deleters :
            ( /\ DeleteJob(f, j, u)
              /\ jobs[j].status = "processing"
              /\ api_key_concurrent[jobs[j].api_key_id] > 0
              /\ user_concurrent[jobs[j].user_id] > 0 ) =>
                \/ jobs'[j] = jobs[j]
                \/ /\ api_key_concurrent' =
                          release_concurrent(api_key_concurrent, jobs[j].api_key_id)
                   /\ user_concurrent' =
                          release_concurrent(user_concurrent, jobs[j].user_id) ]_vars

=========================================================================
